---- MODULE Spec2Model ----
(***************************************************************************)
(* A state-machine model of the asset-event pipeline of the engine:        *)
(*   - the events scheduler          (src/scheduler/scheduler.go)          *)
(*   - the dispatcher                (src/dispatcher/dispatcher.go)        *)
(*   - the DNS queries and guesses   (src/plugins/support/resolvers.go)    *)
(*   - the loading of the plugins    (src/plugins/load.go)                 *)
(*                                                                         *)
(* Every loop iteration of Scheduler.Process and every public method of    *)
(* the scheduler runs under the scheduler mutex, so each is one atomic     *)
(* action.  DispatchEvent takes no lock of its own: its cache lookup and   *)
(* its cache insert are two separate steps of the calling goroutine.       *)
(*                                                                         *)
(* Wall-clock time is not represented: every comparison against            *)
(* time.Now() is an input of the step that makes it (due, expired).        *)
(***************************************************************************)
EXTENDS Integers, Sequences, FiniteSets, Bags, TLC

\* ------------------------------------------------------------------ bounds
MaxEvents == 2          \* event UUIDs 1..MaxEvents
MaxSchedules == 2       \* Schedule calls accepted in one behaviour
MaxStarts == 3          \* Actions the Process loop starts per event
MaxCancelAll == 1       \* CancelAll calls accepted in one behaviour
MaxRepeat == 2          \* largest RepeatTimes an input carries
MaxPriority == 2        \* largest Priority an input carries
MaxCallers == 3         \* goroutines calling DispatchEvent
MaxAssets == 2          \* distinct assets per session
MaxSessions == 2        \* sessions
MaxResolvers == 2    \* resolvers in the trusted pool (trusted.Len())
MaxGuesses == 3      \* SubmitFQDNGuess calls
MaxPlugins == 5      \* entries of pluginNewFuncs
MaxAnswers == 1         \* records in the Answer section of a DNS response

\* --------------------------------------------------------------- constants
zeroUUID == 0
UUIDs == 1..MaxEvents
UnknownUUID == MaxEvents + 1    \* a UUID no event is ever scheduled with

EventStateWaiting == "Waiting"
EventStateProcessable == "Processable"
EventStateInProcess == "InProcess"
EventStateDone == "Done"
EventStateCancelled == "Cancelled"
EventStateError == "Error"
EventStates == {EventStateWaiting, EventStateProcessable, EventStateInProcess,
                EventStateDone, EventStateCancelled, EventStateError}

SchedulerStateRunning == "Running"
SchedulerStateShutdown == "Shutdown"

\* event.Timeout: the zero time.Time of an event the caller built, or the
\* deadline line 536 sets.
TimeoutZero == "zero"
TimeoutSet == "set"

VARIABLES
    events,      \* s.events: UUID -> event (the map entry *eCopy)
    q,           \* s.q: the queue entries in arrival order, each an event value and its key
    stats,       \* s.stats
    cra,         \* s.CurrentRunningActions
    sstate,      \* s.state
    config,      \* the ProcessConfig handed to Process
    ploop,       \* the Process call: "idle", "running" (top of the loop), "checked"
                 \* (past the state test of line 436), "returned", "panicked"
    workers,     \* bag of running processEvent goroutines, each holding its event
    nstart,      \* per UUID: Actions started by the Process loop
    nspawn,      \* per UUID: processEvent goroutines started by Schedule
    ncancelall,  \* CancelAll calls so far
    last,        \* what the last step did
    cache,       \* per session: the assets in the session cache
    dcall,       \* per caller goroutine: its DispatchEvent call in progress
    dres,        \* per (session, asset): how many calls returned nil / "scheduled previously"
    workTotal,   \* per session: stats.WorkItemsTotal
    pipeq,       \* the elements appended to the asset pipelines' queues
    completed,   \* d.completed: the elements on the dispatcher's completion queue
    workCompleted, \* per session: stats.WorkItemsCompleted
    done,        \* the d.done channel is closed
    drain,       \* the collectEvents goroutine: pc "select" (line 49), "process"
                 \* (in the Process of line 53), "flush" (in the Process of line
                 \* 56) or "exited"; held: the element Process took off the
                 \* queue and its callback has not counted yet
    pl,          \* the LoadAndStartPlugins call (see InitPlugins)
    scall,       \* the Schedule calls between the cache test of line 85 and the
                 \* Lock of line 92, each by the event it was handed
    dq           \* the dnsQuery call: its loop counter, last response and results

schedVars == <<events, q, stats, cra, sstate, config, ploop, workers, nstart, nspawn,
               ncancelall>>
drainVars == <<completed, workCompleted, done, drain>>
dispVars == <<cache, dcall, dres, workTotal, pipeq, completed, workCompleted, done, drain>>
vars == <<events, q, stats, cra, sstate, config, ploop, workers, nstart, nspawn,
          ncancelall, last,
          cache, dcall, dres, workTotal, pipeq, completed, workCompleted, done, drain,
          dq, pl, scall>>

\* ----------------------------------------------------------------- helpers
Range(f) == {f[i] : i \in DOMAIN f}

RemoveAt(sq, i) == SubSeq(sq, 1, i - 1) \o SubSeq(sq, i + 1, Len(sq))

\* The bag b with one copy of x added / removed.
BagAdd(b, x) == b (+) SetToBag({x})
BagDel(b, x) == b (-) SetToBag({x})

\* ------------------------------------------------------------- the queue
\* github.com/caffix/queue: AppendPriority and Next.  Smaller key first, FIFO
\* among equal keys (spec section 4.5).
AppendPriority(sq, data, priority) == Append(sq, [ev |-> data, prio |-> priority])

QNextIndex(sq) ==
    CHOOSE i \in 1..Len(sq) :
        /\ \A j \in 1..Len(sq) : sq[i].prio <= sq[j].prio
        /\ \A j \in 1..(i - 1) : sq[j].prio # sq[i].prio

\* --------------------------------------------------------- scheduler struct
\* The fields of *Scheduler the helpers below read and write.
S == [events |-> events, q |-> q, stats |-> stats, cra |-> cra]

ZeroStats == [TotalEventsReceived |-> 0, TotalEventsDone |-> 0,
              TotalEventsCancelled |-> 0, TotalEventsInProcess |-> 0,
              TotalEventsError |-> 0, TotalEventsWaiting |-> 0,
              TotalEventsProcessable |-> 0]

StatField(state) ==
    CASE state = EventStateCancelled -> "TotalEventsCancelled"
      [] state = EventStateDone -> "TotalEventsDone"
      [] state = EventStateError -> "TotalEventsError"
      [] state = EventStateInProcess -> "TotalEventsInProcess"
      [] state = EventStateProcessable -> "TotalEventsProcessable"
      [] state = EventStateWaiting -> "TotalEventsWaiting"

updateSchedulerStats(s, oldState, newState) ==
    IF oldState # newState
    THEN LET st1 == [s.stats EXCEPT ![StatField(newState)] = @ + 1]
             st2 == [st1 EXCEPT ![StatField(oldState)] = @ - 1]
         IN  [s EXCEPT !.stats = st2]
    ELSE s

\* setupEvent: fresh is the value uuid.New() returns.
setupEvent(e, fresh) ==
    LET e1 == IF e.UUID = zeroUUID THEN [e EXCEPT !.UUID = fresh] ELSE e
        e2 == IF e1.RepeatTimes < -1 THEN [e1 EXCEPT !.RepeatTimes = -1] ELSE e1
    IN  IF e2.RepeatEvery < 0 THEN [e2 EXCEPT !.RepeatEvery = 0] ELSE e2

\* Lines 94-107 with a dependency that is not in the map taken as met, and
\* without the lowering of the priority.
InitialStateAndPriority_MissingIsMet(s, e, i) ==
    IF \E d \in Range(e.DependOn) :
           d \in DOMAIN s.events /\ s.events[d].State # EventStateDone
    THEN [e EXCEPT !.State = EventStateProcessable]
    ELSE e

\* Schedule, lines 94-111: the initial state and the priority of the event.
\* The loop stops at the first dependency that is missing or not Done.
RECURSIVE InitialStateAndPriority(_, _, _)
InitialStateAndPriority(s, e, i) ==
    IF i > Len(e.DependOn) THEN e
    ELSE LET d == e.DependOn[i] IN
         IF d \notin DOMAIN s.events \/ s.events[d].State # EventStateDone
         THEN [e EXCEPT !.State = EventStateProcessable]
         ELSE IF s.events[d].Priority <= e.Priority
              THEN InitialStateAndPriority(
                       s, [e EXCEPT !.Priority = s.events[d].Priority - 1], i + 1)
              ELSE InitialStateAndPriority(s, e, i + 1)

\* Lines 108-111 left out.
DefaultPriority_NoDefault(e) == e

DefaultPriority(e) == IF e.Priority <= 0 THEN [e EXCEPT !.Priority = 1] ELSE e

\* schedule with the copy appended under a fixed key instead of its Priority.
schedule_FixedKey(s, e) ==
    LET eCopy == [e EXCEPT !.Action = TRUE]
    IN  [s EXCEPT !.events = [u \in (DOMAIN s.events) \cup {e.UUID} |->
                                 IF u = e.UUID THEN eCopy ELSE s.events[u]],
                  !.q = AppendPriority(s.q, eCopy, 1)]

\* schedule with the old map entry deleted and the copy never stored.
schedule_NoStore(s, e) ==
    LET eCopy == [e EXCEPT !.Action = TRUE]
    IN  [s EXCEPT !.events = [u \in (DOMAIN s.events) \ {e.UUID} |-> s.events[u]],
                  !.q = AppendPriority(s.q, eCopy, eCopy.Priority)]

\* schedule (private): copy the event, bind the default Action, store the copy
\* in the map and append a copy to the queue under the event's priority.
schedule(s, e) ==
    LET eCopy == [e EXCEPT !.Action = TRUE]
    IN  [s EXCEPT !.events = [u \in (DOMAIN s.events) \cup {e.UUID} |->
                                 IF u = e.UUID THEN eCopy ELSE s.events[u]],
                  !.q = AppendPriority(s.q, eCopy, eCopy.Priority)]

MapDelete(m, dead) == [u \in (DOMAIN m) \ dead |-> m[u]]

\* removeEventAndDeps: every event that lists uuid in DependOn is counted as
\* Cancelled and deleted from the map, then uuid itself is deleted.  The queue
\* is not touched.
Dependents(s, uuid) == {u \in DOMAIN s.events : uuid \in Range(s.events[u].DependOn)}

RECURSIVE CancelStats(_, _)
CancelStats(s, us) ==
    IF us = {} THEN s
    ELSE LET u == CHOOSE x \in us : TRUE
         IN  CancelStats(updateSchedulerStats(s, s.events[u].State, EventStateCancelled),
                         us \ {u})

removeEventAndDeps(s, uuid) ==
    LET deps == Dependents(s, uuid)
        s1 == CancelStats(s, deps)
    IN  [s1 EXCEPT !.events = MapDelete(s.events, deps \cup {uuid})]

\* reschedule: event is the value taken from the queue.  The first two
\* branches differ only in the Timestamp, which the model does not carry.
Requeue(s, event, repeatTimes) ==
    LET s1 == updateSchedulerStats(s, event.State, EventStateProcessable)
    IN  schedule(s1, [event EXCEPT !.State = EventStateProcessable,
                                   !.RepeatTimes = repeatTimes])

\* reschedule without the decrement of RepeatTimes.
reschedule_NoDecrement(s, event) ==
    IF event.RepeatTimes > 0 \/ event.RepeatTimes = -1
    THEN Requeue(s, event, event.RepeatTimes)
    ELSE [s EXCEPT !.events = MapDelete(s.events, {event.UUID})]

\* reschedule treating RepeatTimes = -1 as no repetition.
reschedule_NoForever(s, event) ==
    IF event.RepeatTimes > 0
    THEN Requeue(s, event, event.RepeatTimes - 1)
    ELSE [s EXCEPT !.events = MapDelete(s.events, {event.UUID})]

reschedule(s, event) ==
    IF event.RepeatEvery = 0 /\ event.RepeatTimes > 0
    THEN Requeue(s, event, event.RepeatTimes - 1)
    ELSE IF event.RepeatEvery > 0 /\ event.RepeatTimes > 0
    THEN Requeue(s, event, event.RepeatTimes - 1)
    ELSE IF event.RepeatEvery >= 0 /\ event.RepeatTimes = -1
    THEN Requeue(s, event, event.RepeatTimes)
    ELSE [s EXCEPT !.events = MapDelete(s.events, {event.UUID})]

\* isProcessable: the loop stops at the first dependency that is in the map
\* and not Done; that dependency blocks unless it is the event itself or the
\* zero UUID.
RECURSIVE isProcessableFrom(_, _, _)
isProcessableFrom(s, event, i) ==
    IF i > Len(event.DependOn) THEN TRUE
    ELSE LET d == event.DependOn[i] IN
         IF d \in DOMAIN s.events /\ s.events[d].State # EventStateDone
         THEN ~(d # event.UUID /\ d # zeroUUID)
         ELSE isProcessableFrom(s, event, i + 1)

\* isProcessable with a dependency that is not in the map blocking the event.
isProcessable_UnknownBlocks(s, event) ==
    \A d \in Range(event.DependOn) :
        d \in DOMAIN s.events /\ s.events[d].State = EventStateDone

\* isProcessable looking at the first dependency only.
isProcessable_FirstOnly(s, event) ==
    isProcessableFrom(s, [event EXCEPT !.DependOn =
                                 IF Len(@) = 0 THEN <<>> ELSE <<@[1]>>], 1)

isProcessable(s, event) == isProcessableFrom(s, event, 1)

Terminal(state) == state \in {EventStateDone, EventStateCancelled, EventStateError}

\* SetEventState (package function, lines 312-341), called by an Action with
\* the event it was handed.
SetEventState(s, e, state) ==
    LET m1 == IF e.UUID \in DOMAIN s.events THEN s.events
              ELSE [u \in (DOMAIN s.events) \cup {e.UUID} |->
                       IF u = e.UUID THEN e ELSE s.events[u]]
        c1 == IF Terminal(state) /\ m1[e.UUID].State = EventStateInProcess
              THEN s.cra - 1 ELSE s.cra
        oldState == m1[e.UUID].State
        s1 == [s EXCEPT !.events = [m1 EXCEPT ![e.UUID].State = state], !.cra = c1]
    IN  updateSchedulerStats(s1, oldState, state)

Commit(s) ==
    /\ events' = s.events
    /\ q' = s.q
    /\ stats' = s.stats
    /\ cra' = s.cra

Alive == ploop # "panicked"

NoteStep(op, uuid, started, idx, inp) ==
    last' = [op |-> op, uuid |-> uuid, started |-> started, idx |-> idx, inp |-> inp]

NoEvent == [UUID |-> zeroUUID, State |-> EventStateWaiting, DependOn |-> <<>>,
            Priority |-> 0, RepeatEvery |-> 0, RepeatTimes |-> 0, Action |-> FALSE,
            Timeout |-> TimeoutZero]

\* ------------------------------------------------------- scheduler actions
\* Scheduler.Schedule(e) from line 90 on: setupEvent on the caller's event,
\* then lines 92-122 under the scheduler's lock.
ScheduleInsert(in, fresh) ==
    /\ Alive
    /\ stats.TotalEventsReceived < MaxSchedules
    /\ LET e1 == setupEvent(in, fresh)
           e2 == InitialStateAndPriority(S, [e1 EXCEPT !.State = EventStateWaiting], 1)
           e == DefaultPriority(e2)
           s1 == schedule(S, e)
       IN  /\ Commit([s1 EXCEPT !.stats.TotalEventsReceived = @ + 1])
           \* go processEvent(e), line 121: the goroutine holds the caller's
           \* event, whose Action may be nil (schedule binds the default
           \* Action on its copy only)
           /\ workers' = BagAdd(workers, [ev |-> e, by |-> "Schedule"])
           /\ nspawn' = [nspawn EXCEPT ![e.UUID] = @ + 1]
           /\ NoteStep("Schedule", e.UUID, FALSE, 0, in)
    /\ UNCHANGED <<sstate, config, ploop, nstart, ncancelall>>
    /\ UNCHANGED <<dispVars, dq, pl>>

\* Scheduler.Schedule(e) for an event whose Data is not an asset: the type
\* assertion of line 84 fails, the session cache is not read, and the call is
\* one critical section (setupEvent touches the caller's event only).
Schedule(in, fresh) ==
    /\ ScheduleInsert(in, fresh)
    /\ UNCHANGED scall

\* Scheduler.Cancel(uuid) for a uuid in the map (a no-op otherwise).
Cancel(uuid) ==
    /\ Alive
    /\ uuid \in DOMAIN events
    /\ LET s1 == [S EXCEPT !.events[uuid].State = EventStateCancelled]
       IN  Commit(removeEventAndDeps(s1, uuid))
    /\ NoteStep("Cancel", uuid, FALSE, 0, NoEvent)
    /\ UNCHANGED <<sstate, config, ploop, workers, nstart, nspawn, ncancelall>>
    /\ UNCHANGED <<dispVars, dq, pl, scall>>

\* Scheduler.CancelAll().
CancelAll ==
    /\ Alive
    /\ ncancelall < MaxCancelAll
    /\ ncancelall' = ncancelall + 1
    /\ events' = [u \in DOMAIN events |-> [events[u] EXCEPT !.State = EventStateCancelled]]
    /\ stats' = [stats EXCEPT !.TotalEventsCancelled = @ + Cardinality(DOMAIN events)]
    /\ NoteStep("CancelAll", zeroUUID, FALSE, 0, NoEvent)
    /\ UNCHANGED <<q, cra, sstate, config, ploop, workers, nstart, nspawn>>
    /\ UNCHANGED <<dispVars, dq, pl, scall>>

\* Scheduler.Shutdown(), called once.
Shutdown ==
    /\ Alive
    /\ sstate = SchedulerStateRunning
    /\ events' = [u \in DOMAIN events |-> [events[u] EXCEPT !.State = EventStateCancelled]]
    /\ stats' = [stats EXCEPT !.TotalEventsCancelled = @ + Cardinality(DOMAIN events)]
    /\ sstate' = SchedulerStateShutdown
    /\ NoteStep("Shutdown", zeroUUID, FALSE, 0, NoEvent)
    /\ UNCHANGED <<q, cra, config, ploop, workers, nstart, nspawn, ncancelall>>
    /\ UNCHANGED <<dispVars, dq, pl, scall>>

\* A running processEvent goroutine whose Action sets the event Done.
WorkerDone(w) ==
    /\ Alive
    /\ BagIn(w, workers)
    /\ w.ev.Action
    /\ Commit(SetEventState(S, w.ev, EventStateDone))
    /\ workers' = BagDel(workers, w)
    /\ NoteStep("Done", w.ev.UUID, FALSE, 0, NoEvent)
    /\ UNCHANGED <<sstate, config, ploop, nstart, nspawn, ncancelall>>
    /\ UNCHANGED <<dispVars, dq, pl, scall>>

\* A running processEvent goroutine whose Action returns an error: the event
\* is set to Error (spec section 4.5.4).
WorkerError(w) ==
    /\ Alive
    /\ BagIn(w, workers)
    /\ w.ev.Action
    /\ Commit(SetEventState(S, w.ev, EventStateError))
    /\ workers' = BagDel(workers, w)
    /\ NoteStep("Error", w.ev.UUID, FALSE, 0, NoEvent)
    /\ UNCHANGED <<sstate, config, ploop, nstart, nspawn, ncancelall>>
    /\ UNCHANGED <<dispVars, dq, pl, scall>>

\* A processEvent goroutine whose event has no Action (Schedule hands it the
\* caller's event, line 121).  The worker runs Action(event) (spec section
\* 4.5.4): the call of a nil func panics, which ends the program and the
\* Process loop with it; a worker that tests for nil returns at once.
WorkerNoAction(w, crash) ==
    /\ Alive
    /\ BagIn(w, workers)
    /\ ~w.ev.Action
    /\ workers' = BagDel(workers, w)
    /\ ploop' = IF crash THEN "panicked" ELSE ploop
    /\ NoteStep("NoAction", w.ev.UUID, FALSE, 0, NoEvent)
    /\ UNCHANGED <<events, q, stats, cra, sstate, config, nstart, nspawn, ncancelall>>
    /\ UNCHANGED <<dispVars, dq, pl, scall>>

\* The caller enters Scheduler.Process(config).
ProcessStart ==
    /\ ploop = "idle"
    /\ ploop' = "running"
    /\ NoteStep("ProcessStart", zeroUUID, FALSE, 0, NoEvent)
    /\ UNCHANGED <<events, q, stats, cra, sstate, config, workers, nstart, nspawn, ncancelall>>
    /\ UNCHANGED <<dispVars, dq, pl, scall>>

\* The top of a loop iteration, lines 436-446: the state test, made without
\* the lock, found the scheduler not shut down.
ProcessCheck ==
    /\ ploop = "running"
    /\ sstate # SchedulerStateShutdown
    /\ ploop' = "checked"
    /\ NoteStep("ProcessCheck", zeroUUID, FALSE, 0, NoEvent)
    /\ UNCHANGED <<events, q, stats, cra, sstate, config, workers, nstart, nspawn, ncancelall>>
    /\ UNCHANGED <<dispVars, dq, pl, scall>>

\* Process returns: the state test found the scheduler shut down (line 437),
\* or the queue is empty under the lock and ExitWhenEmpty is set (lines
\* 450-454); without ExitWhenEmpty the loop sleeps and starts over.
ProcessExit ==
    /\ \/ ploop = "running" /\ sstate = SchedulerStateShutdown /\ ploop' = "returned"
       \/ /\ ploop = "checked" /\ Len(q) = 0
          /\ ploop' = IF config.ExitWhenEmpty THEN "returned" ELSE "running"
    /\ NoteStep("ProcessExit", zeroUUID, FALSE, 0, NoEvent)
    /\ UNCHANGED <<events, q, stats, cra, sstate, config, workers, nstart, nspawn, ncancelall>>
    /\ UNCHANGED <<dispVars, dq, pl, scall>>

\* One iteration of the Process loop that takes an entry from the queue
\* (lines 460-586), from s.q.Next() to the Unlock that ends the iteration.
\*   due:     time.Now() is after event.Timestamp + RepeatEvery
\*   expired: time.Now() is after the deadline line 536 set; a Timeout that
\*            was never set is the zero time, which every time.Now() is after
\* The three conjuncts of the result: the scheduler afterwards, whether an
\* Action was started, whether Process returns (ReturnIfFound).
VisitInProcess(s, event, expired) ==
    LET hit == config.ActionTimeout > 0 /\ (event.Timeout = TimeoutZero \/ expired)
        s1 == IF hit THEN updateSchedulerStats(s, event.State, EventStateError) ELSE s
        ev1 == IF hit THEN [event EXCEPT !.State = EventStateError] ELSE event
    IN  [s |-> schedule(s1, ev1), started |-> FALSE, ret |-> FALSE]

VisitReady(s, event) ==
    LET room == s.cra < config.MaxConcurrentActions
        s1 == IF room THEN updateSchedulerStats(s, event.State, EventStateInProcess) ELSE s
        ev1 == [IF room THEN [event EXCEPT !.State = EventStateInProcess] ELSE event
                   EXCEPT !.Timeout = TimeoutSet]
    IN  IF config.ExecuteAction /\ event.Action
        THEN LET s2 == schedule(s1, ev1)
             IN  IF ev1.State # EventStateInProcess
                 THEN [s |-> s2, started |-> FALSE, ret |-> FALSE]
                 ELSE [s |-> [s2 EXCEPT !.cra = @ + 1], started |-> TRUE,
                       ret |-> config.ReturnIfFound]
        ELSE [s |-> updateSchedulerStats(s1, ev1.State, EventStateProcessable),
              started |-> FALSE, ret |-> config.ReturnIfFound]

Visit(s, event, due, expired) ==
    LET state == s.events[event.UUID].State
    IN  IF state = EventStateInProcess THEN VisitInProcess(s, event, expired)
        ELSE IF state = EventStateCancelled \/ state = EventStateError
        THEN [s |-> removeEventAndDeps(s, event.UUID), started |-> FALSE, ret |-> FALSE]
        ELSE IF state = EventStateDone
        THEN [s |-> reschedule(s, event), started |-> FALSE, ret |-> FALSE]
        ELSE IF isProcessable(s, event) /\ due THEN VisitReady(s, event)
        ELSE [s |-> schedule(s, event), started |-> FALSE, ret |-> FALSE]

\* The event the started goroutine holds: the local variable event of the
\* iteration, after lines 533 and 536.
StartedEvent(event) ==
    [event EXCEPT !.State = EventStateInProcess, !.Timeout = TimeoutSet]

ProcessVisit(due, expired) ==
    /\ ploop = "checked"
    /\ Len(q) > 0
    /\ LET i == QNextIndex(q)
           event == q[i].ev
           s0 == [S EXCEPT !.q = RemoveAt(q, i)]
       IN  IF event.UUID \notin DOMAIN events
           THEN \* s.events[event.UUID] is nil: line 479 dereferences it
                /\ ploop' = "panicked"
                /\ q' = s0.q
                /\ NoteStep("Panic", event.UUID, FALSE, i, event)
                /\ UNCHANGED <<events, stats, cra, workers, nstart>>
           ELSE LET r == Visit(s0, event, due, expired)
                IN  /\ r.started => nstart[event.UUID] < MaxStarts
                    /\ Commit(r.s)
                    /\ ploop' = IF r.ret THEN "returned" ELSE "running"
                    /\ workers' = IF r.started
                                  THEN BagAdd(workers, [ev |-> StartedEvent(event),
                                                        by |-> "Process"])
                                  ELSE workers
                    /\ nstart' = IF r.started THEN [nstart EXCEPT ![event.UUID] = @ + 1]
                                               ELSE nstart
                    /\ last' = [op |-> "Visit", uuid |-> event.UUID, started |-> r.started,
                                idx |-> i, inp |-> event,
                                due |-> due /\
                                    events[event.UUID].State \in
                                        {EventStateWaiting, EventStateProcessable} /\
                                    isProcessable(s0, event),
                                expired |-> expired /\
                                    events[event.UUID].State = EventStateInProcess /\
                                    events[event.UUID].Timeout = TimeoutSet]
    /\ UNCHANGED <<sstate, config, nspawn, ncancelall>>
    /\ UNCHANGED <<dispVars, dq, pl, scall>>

\* ------------------------------------------------------------------ inputs
Event(u, deps, prio, every, times) ==
    [UUID |-> u, State |-> EventStateWaiting, DependOn |-> deps, Priority |-> prio,
     RepeatEvery |-> every, RepeatTimes |-> times, Action |-> TRUE,
     Timeout |-> TimeoutZero]

ProcessConfig(exit, exec, ret, timeout, max) ==
    [ExitWhenEmpty |-> exit, ExecuteAction |-> exec, ReturnIfFound |-> ret,
     ActionTimeout |-> timeout, MaxConcurrentActions |-> max]

InitScheduler(cfgs) ==
    /\ events = << >>
    /\ q = << >>
    /\ stats = ZeroStats
    /\ cra = 0
    /\ sstate = SchedulerStateRunning
    /\ config \in cfgs
    /\ ploop = "idle"
    /\ workers = EmptyBag
    /\ nstart = [u \in UUIDs |-> 0]
    /\ nspawn = [u \in UUIDs |-> 0]
    /\ ncancelall = 0
    /\ scall = {}
    /\ last = [op |-> "Init", uuid |-> zeroUUID, started |-> FALSE, idx |-> 0,
               inp |-> NoEvent]

\* ------------------------------------------------------------ dispatcher
Callers == 1..MaxCallers
Sessions == 1..MaxSessions
Assets == 1..MaxAssets

\* The registry (spec section 4.3): GetPipeline returns the pipeline of the
\* asset's type, an empty one when no handler is registered for the type.
\* Every asset of Assets is of a type with handlers; UnhandledAsset is of a
\* type for which none was registered.
UnhandledAsset == MaxAssets + 1
HasHandlers(a) == a \in Assets

\* The session cache (spec section 4.1): GetAsset and SetAsset are each
\* atomic; the cache of session s holds the assets set so far.
GetAsset(c, s, a) == <<s, a>> \in c
SetAsset(c, s, a) == c \cup {<<s, a>>}

\* NewEventDataElement(e) with data.Queue = d.completed (lines 94-95): the
\* element names the queue it is to be put on when its pipeline is through.
EventDataElement(s, a) == [s |-> s, a |-> a, Queue |-> "completed"]

\* No element: the drain goroutine holds none between two callbacks.
NoElement == [s |-> 0, a |-> 0, Queue |-> "none"]

\* dcall[c].pc: "idle" before the call, "insert" before line 87, "pipeline"
\* before line 89, "count" before line 98, "returned" after the call.
IdleCall == [pc |-> "idle", s |-> 0, a |-> 0]

InitDispatcher ==
    /\ cache = {}
    /\ dcall = [c \in Callers |-> IdleCall]
    /\ dres = [sa \in Sessions \X (Assets \cup {UnhandledAsset}) |-> [ok |-> 0, dup |-> 0, err |-> 0]]
    /\ workTotal = [s \in Sessions |-> 0]
    /\ pipeq = << >>
    /\ completed = << >>
    /\ workCompleted = [s \in Sessions |-> 0]
    /\ done = FALSE
    /\ drain = [pc |-> "select", held |-> NoElement]

\* DispatchEvent, lines 81-86: goroutine c enters with an event of session s
\* for asset a, and looks the asset up in the session cache.  A hit returns
\* the "scheduled previously" error.
DispatchLookup(c, s, a) ==
    /\ dcall[c].pc = "idle"
    /\ IF GetAsset(cache, s, a)
       THEN /\ dcall' = [dcall EXCEPT ![c] = [pc |-> "returned", s |-> s, a |-> a]]
            /\ dres' = [dres EXCEPT ![<<s, a>>].dup = @ + 1]
       ELSE /\ dcall' = [dcall EXCEPT ![c] = [pc |-> "insert", s |-> s, a |-> a]]
            /\ dres' = dres
    /\ NoteStep("DispatchLookup", c, FALSE, 0, NoEvent)
    /\ UNCHANGED <<cache, workTotal, pipeq>>
    /\ UNCHANGED drainVars
    /\ UNCHANGED <<schedVars, dq, pl, scall>>

\* DispatchEvent without the cache insert of line 87.
DispatchSetAsset_NoSet(c) ==
    /\ dcall[c].pc = "insert"
    /\ cache' = cache
    /\ dcall' = [dcall EXCEPT ![c].pc = "pipeline"]
    /\ NoteStep("DispatchSetAsset", c, FALSE, 0, NoEvent)
    /\ UNCHANGED <<dres, workTotal, pipeq>>
    /\ UNCHANGED drainVars
    /\ UNCHANGED <<schedVars, dq, pl, scall>>

\* DispatchEvent, line 87: the asset is put into the session cache (the
\* cache's own lock, taken and released inside SetAsset).
DispatchSetAsset(c) ==
    /\ dcall[c].pc = "insert"
    /\ cache' = SetAsset(cache, dcall[c].s, dcall[c].a)
    /\ dcall' = [dcall EXCEPT ![c].pc = "pipeline"]
    /\ NoteStep("DispatchSetAsset", c, FALSE, 0, NoEvent)
    /\ UNCHANGED <<dres, workTotal, pipeq>>
    /\ UNCHANGED drainVars
    /\ UNCHANGED <<schedVars, dq, pl, scall>>

\* DispatchEvent, lines 89-96: the registry is asked for the pipeline; on its
\* error (failed) the call returns it at line 91, otherwise the element is
\* made and appended to the pipeline queue.  The stats lock of line 99 is not
\* held yet, and from the append on the pipeline may work on the element.
DispatchAppend(c, failed) ==
    /\ dcall[c].pc = "pipeline"
    /\ IF failed
       THEN /\ dcall' = [dcall EXCEPT ![c].pc = "returned"]
            /\ dres' = [dres EXCEPT ![<<dcall[c].s, dcall[c].a>>].err = @ + 1]
            /\ pipeq' = pipeq
       ELSE /\ dcall' = [dcall EXCEPT ![c].pc = "count"]
            /\ dres' = dres
            /\ pipeq' = Append(pipeq, EventDataElement(dcall[c].s, dcall[c].a))
    /\ NoteStep("DispatchAppend", c, FALSE, 0, NoEvent)
    /\ UNCHANGED <<cache, workTotal>>
    /\ UNCHANGED drainVars
    /\ UNCHANGED <<schedVars, dq, pl, scall>>

\* DispatchEvent without the increment of WorkItemsTotal of line 100.
DispatchCount_NoCount(c) ==
    /\ dcall[c].pc = "count"
    /\ workTotal' = workTotal
    /\ dres' = [dres EXCEPT ![<<dcall[c].s, dcall[c].a>>].ok = @ + 1]
    /\ dcall' = [dcall EXCEPT ![c].pc = "returned"]
    /\ NoteStep("DispatchCount", c, FALSE, 0, NoEvent)
    /\ UNCHANGED <<cache, pipeq>>
    /\ UNCHANGED drainVars
    /\ UNCHANGED <<schedVars, dq, pl, scall>>

\* DispatchEvent, lines 98-103: WorkItemsTotal is incremented under the stats
\* lock and the call returns nil.
DispatchCount(c) ==
    /\ dcall[c].pc = "count"
    /\ workTotal' = [workTotal EXCEPT ![dcall[c].s] = @ + 1]
    /\ dres' = [dres EXCEPT ![<<dcall[c].s, dcall[c].a>>].ok = @ + 1]
    /\ dcall' = [dcall EXCEPT ![c].pc = "returned"]
    /\ NoteStep("DispatchCount", c, FALSE, 0, NoEvent)
    /\ UNCHANGED <<cache, pipeq>>
    /\ UNCHANGED drainVars
    /\ UNCHANGED <<schedVars, dq, pl, scall>>

\* The asset pipeline finishes an element: it leaves the pipeline and is put
\* on the queue its Queue field names, the dispatcher's completion queue
\* (dispatcher.go:95; spec section 4.6).
PipelineFinish(i) ==
    /\ i \in 1..Len(pipeq)
    /\ HasHandlers(pipeq[i].a)
    /\ pipeq' = RemoveAt(pipeq, i)
    /\ completed' = IF pipeq[i].Queue = "completed"
                    THEN Append(completed, pipeq[i]) ELSE completed
    /\ NoteStep("PipelineFinish", zeroUUID, FALSE, i, NoEvent)
    /\ UNCHANGED <<cache, dcall, dres, workTotal, workCompleted, done, drain>>
    /\ UNCHANGED <<schedVars, dq, pl, scall>>

\* How many elements of session s the sequence sq holds.
CountOf(sq, s) == Cardinality({i \in 1..Len(sq) : sq[i].s = s})

\* collectEvents, lines 52-53: the queue signals and the goroutine enters
\* d.completed.Process(d.completedCallback).
DrainProcess ==
    /\ drain.pc = "select"
    /\ Len(completed) > 0
    /\ drain' = [drain EXCEPT !.pc = "process"]
    /\ NoteStep("DrainProcess", zeroUUID, FALSE, 0, NoEvent)
    /\ UNCHANGED <<cache, dcall, dres, workTotal, pipeq, completed, workCompleted, done>>
    /\ UNCHANGED <<schedVars, dq, pl, scall>>

\* Queue.Process (github.com/caffix/queue), one turn of its loop: Next() takes
\* the head of the queue, which is then handed to the callback; on an empty
\* queue Process returns, to the select of line 49 or, from the Process of
\* line 56, to the end of collectEvents.
ProcessNext ==
    /\ drain.pc \in {"process", "flush"}
    /\ drain.held = NoElement
    /\ IF Len(completed) = 0
       THEN /\ drain' = [drain EXCEPT !.pc = IF @ = "process" THEN "select" ELSE "exited"]
            /\ completed' = completed
            /\ NoteStep("ProcessReturn", zeroUUID, FALSE, 0, NoEvent)
       ELSE /\ drain' = [drain EXCEPT !.held = Head(completed)]
            /\ completed' = Tail(completed)
            /\ NoteStep("ProcessNext", zeroUUID, FALSE, 0, NoEvent)
    /\ UNCHANGED <<cache, dcall, dres, workTotal, pipeq, workCompleted, done>>
    /\ UNCHANGED <<schedVars, dq, pl, scall>>

\* completedCallback(data), lines 59-74: WorkItemsCompleted of the element's
\* session is incremented under the session's stats lock.
completedCallback ==
    /\ drain.held # NoElement
    /\ workCompleted' = [workCompleted EXCEPT ![drain.held.s] = @ + 1]
    /\ drain' = [drain EXCEPT !.held = NoElement]
    /\ NoteStep("completedCallback", zeroUUID, FALSE, 0, NoEvent)
    /\ UNCHANGED <<cache, dcall, dres, workTotal, pipeq, completed, done>>
    /\ UNCHANGED <<schedVars, dq, pl, scall>>

\* dis.Shutdown(): close(d.done), once.
DispatcherShutdown ==
    /\ ~done
    /\ done' = TRUE
    /\ NoteStep("DispatcherShutdown", zeroUUID, FALSE, 0, NoEvent)
    /\ UNCHANGED <<cache, dcall, dres, workTotal, pipeq, completed, workCompleted, drain>>
    /\ UNCHANGED <<schedVars, dq, pl, scall>>

\* collectEvents without the final Process of line 56.
DrainExit_NoFlush ==
    /\ drain.pc = "select"
    /\ done
    /\ drain' = [drain EXCEPT !.pc = "exited"]
    /\ NoteStep("DrainExit", zeroUUID, FALSE, Len(completed), NoEvent)
    /\ UNCHANGED <<cache, dcall, dres, workTotal, pipeq, completed, workCompleted, done>>
    /\ UNCHANGED <<schedVars, dq, pl, scall>>

\* collectEvents, lines 50-51 and 56: the done case of the select is taken,
\* the loop is left and the final Process of line 56 is entered.
DrainExit ==
    /\ drain.pc = "select"
    /\ done
    /\ drain' = [drain EXCEPT !.pc = "flush"]
    /\ NoteStep("DrainExit", zeroUUID, FALSE, Len(completed), NoEvent)
    /\ UNCHANGED <<cache, dcall, dres, workTotal, pipeq, completed, workCompleted, done>>
    /\ UNCHANGED <<schedVars, dq, pl, scall>>

\* ------------------------------------------------------- session statistics
EventTypeUnknown == "Unknown"
EventTypeAsset == "Asset"
EventTypeCustom == "Custom"
EventTypes == {EventTypeUnknown, EventTypeAsset, EventTypeCustom}

SessionStatsResponse(inproc, processable, waiting) ==
    [SessionWorkItemsInProcess |-> inproc, SessionWorkItemsProcessable |-> processable,
     SessionWorkItemsWaiting |-> waiting]

\* One turn of the loop of lines 219-231 for event, added to the response r.
CountEvent(r, event, sid, itmType) ==
    IF (event.Type = itmType \/ itmType = EventTypeUnknown) /\ event.SessionID = sid
    THEN IF event.State = EventStateInProcess
         THEN [r EXCEPT !.SessionWorkItemsInProcess = @ + 1]
         ELSE IF event.State = EventStateProcessable
         THEN [r EXCEPT !.SessionWorkItemsProcessable = @ + 1]
         ELSE IF event.State = EventStateWaiting
         THEN [r EXCEPT !.SessionWorkItemsWaiting = @ + 1]
         ELSE r
    ELSE r

RECURSIVE CountEvents(_, _, _, _, _)
CountEvents(r, m, us, sid, itmType) ==
    IF us = {} THEN r
    ELSE LET u == CHOOSE x \in us : TRUE
         IN  CountEvents(CountEvent(r, m[u], sid, itmType), m, us \ {u}, sid, itmType)

\* GetSessionStats counting the events of every session.
GetSessionStats_AnySession(s, sid, itmType) ==
    IF sid = zeroUUID THEN SessionStatsResponse(0, 0, 0)
    ELSE SessionStatsResponse(
             Cardinality({u \in DOMAIN s.events : s.events[u].State = EventStateInProcess}),
             Cardinality({u \in DOMAIN s.events : s.events[u].State = EventStateProcessable}),
             Cardinality({u \in DOMAIN s.events : s.events[u].State = EventStateWaiting}))

\* Scheduler.GetSessionStats(sid, itmType), lines 210-233.
GetSessionStats(s, sid, itmType) ==
    IF sid = zeroUUID THEN SessionStatsResponse(0, 0, 0)
    ELSE CountEvents(SessionStatsResponse(0, 0, 0), s.events, DOMAIN s.events, sid, itmType)

\* setEventState (private, lines 296-308): the state of the map entry is set,
\* a running Action that ends is taken off CurrentRunningActions; an unknown
\* UUID is only logged.
setEventState(s, uuid, state) ==
    IF uuid \in DOMAIN s.events
    THEN LET oldState == s.events[uuid].State
             c1 == IF Terminal(state) /\ oldState = EventStateInProcess
                   THEN s.cra - 1 ELSE s.cra
             s1 == [s EXCEPT !.events[uuid].State = state, !.cra = c1]
         IN  updateSchedulerStats(s1, oldState, state)
    ELSE s

\* Scheduler.SetEventState(uuid, state), lines 254-259: a caller sets the
\* state of an event by UUID.
CallerSetEventState(uuid, state) ==
    /\ Alive
    /\ Commit(setEventState(S, uuid, state))
    /\ NoteStep("SetEventState", uuid, FALSE, 0, NoEvent)
    /\ UNCHANGED <<sstate, config, ploop, workers, nstart, nspawn, ncancelall>>
    /\ UNCHANGED <<dispVars, dq, pl, scall>>

\* A caller asks for the statistics of session sid; the answer is noted.
SessionStats(sid, itmType) ==
    /\ Alive
    /\ last' = [op |-> "GetSessionStats", uuid |-> sid, started |-> FALSE, idx |-> 0,
                inp |-> NoEvent, itmType |-> itmType,
                res |-> GetSessionStats(S, sid, itmType)]
    /\ UNCHANGED <<events, q, stats, cra, sstate, config, ploop, workers, nstart, nspawn,
                   ncancelall>>
    /\ UNCHANGED <<dispVars, dq, pl, scall>>

\* ------------------------------------------------- Schedule, the rejections
\* Schedule(nil), lines 78-80: the call returns its error at once.
ScheduleNil ==
    /\ Alive
    /\ NoteStep("ScheduleRejected", zeroUUID, FALSE, 0, NoEvent)
    /\ UNCHANGED <<schedVars, dispVars, dq, pl, scall>>

\* The test of lines 84-85 never finding the asset.
AlreadyScheduled_Never(c, e) == FALSE

\* Lines 84-85 for an event e whose Data is an asset: the session cache of
\* e's session already holds it.
AlreadyScheduled(c, e) == GetAsset(c, e.SessionID, e.Data)

\* Scheduler.Schedule(e) for an event whose Data is an asset, lines 78-88:
\* the session cache is read, without the scheduler's lock; a hit returns the
\* error of line 86, after a miss the call goes on to line 90.
ScheduleAssetCheck(in) ==
    /\ Alive
    /\ in \notin scall
    /\ IF AlreadyScheduled(cache, in)
       THEN /\ NoteStep("ScheduleRejected", in.UUID, FALSE, 0, in)
            /\ scall' = scall
       ELSE /\ NoteStep("ScheduleCheck", in.UUID, FALSE, 0, in)
            /\ scall' = scall \cup {in}
    /\ UNCHANGED <<schedVars, dispVars, dq, pl>>

\* The same call from line 90 on, whatever the cache holds by now.  Schedule
\* itself never puts an asset into the cache.
ScheduleAsset(in, fresh) ==
    /\ in \in scall
    /\ ScheduleInsert(in, fresh)
    /\ scall' = scall \ {in}

\* -------------------------------------------------------------- resolvers
\* The attempts PerformQuery allows dnsQuery (resolvers.go, line 103).
QueryAttempts == 50

RcodeSuccess == "NOERROR"
RcodeNameError == "NXDOMAIN"
RcodeServerFailure == "SERVFAIL"

\* What r.QueryBlocking can hand back: an error (timeout, network), or a
\* response with its Rcode and the number of records in its Answer section.
QueryError == [err |-> TRUE, Rcode |-> RcodeServerFailure, Answer |-> 0]

Responses ==
    {QueryError} \cup
    {[err |-> FALSE, Rcode |-> rc, Answer |-> n] :
        rc \in {RcodeSuccess, RcodeNameError, RcodeServerFailure}, n \in 0..MaxAnswers}

NoError == "nil"
ErrNameDoesNotExist == "name does not exist"
ErrNoRecord == "no record of this type"

\* dnsQuery(msg, trusted, 50) is entered: num = 0, nothing asked yet.
\*   pc: "loop" while the for loop runs, "returned" afterwards
\*   num: the loop counter;  calls: QueryBlocking calls made
\*   resp: what the last QueryBlocking call handed back
\*   ret, err: the two results, ret being "nil" or "resp"
\*   pq: the PerformQuery call around it: "dnsQuery" while dnsQuery runs, then
\*       "returned" with the verdict of wildcardDetected (wild), the records
\*       of the requested type in the response (rr), and its two results, the
\*       number of records returned (ans, 0 for nil) and the error
\*   g: the FQDN-guess worker pool (processGuesses, lines 121-141):
\*       ch       the number of tokens in the channel ch
\*       guesses  the guesses queue, each element a session and a name
\*       att      the guessAttempt goroutines started so far, each with its
\*                session s, name, position pc ("cache": before line 146,
\*                "check": before line 151, "query": before line 154, "ended":
\*                returned, token given back), qtype index qi, the number of
\*                PerformQuery calls made, and whether line 146 hit the cache
\*       sdone    the sessions that are done (Session.Done() is true)
\*       pool     processGuesses: "select" (line 129), "next" (in
\*                guesses.Process, before its Next), "token" (the callback
\*                before the receive of line 134), "go" (before the go
\*                statement of line 136), "returned" (after the done case)
\*       held     the guess the callback was handed, NoGuess outside it
\*       submitted the number of SubmitFQDNGuess calls made
NumResolvers == MaxResolvers
QTypes == <<"CNAME", "A", "AAAA">>

NoGuess == [s |-> 0, name |-> 0]

InitGuesses ==
    [ch |-> NumResolvers, guesses |-> << >>, att |-> << >>, sdone |-> {},
     pool |-> "select", held |-> NoGuess, submitted |-> 0]

\* The guessAttempt goroutines that have not returned.
Running(g) == {i \in 1..Len(g.att) : g.att[i].pc # "ended"}

InitQuery ==
    dq = [pc |-> "loop", num |-> 0, calls |-> 0, resp |-> QueryError,
          ret |-> "nil", err |-> NoError,
          pq |-> [pc |-> "dnsQuery", wild |-> FALSE, rr |-> 0, ans |-> 0,
                  err |-> NoError],
          g |-> InitGuesses]

\* The loop body with the skip of an empty successful response left out.
dnsQueryAttempt_SkipEmpty(d, resp) ==
    LET d1 == [d EXCEPT !.calls = @ + 1, !.resp = resp]
    IN  IF resp.err THEN [d1 EXCEPT !.num = @ + 1]
        ELSE IF resp.Rcode = RcodeNameError
        THEN [d1 EXCEPT !.pc = "returned", !.ret = "nil", !.err = ErrNameDoesNotExist]
        ELSE IF resp.Rcode = RcodeSuccess /\ resp.Answer # 0
        THEN [d1 EXCEPT !.pc = "returned", !.ret = "resp", !.err = NoError]
        ELSE [d1 EXCEPT !.num = @ + 1]

\* One pass through the loop body of dnsQuery, lines 204-216, with the
\* response resp of QueryBlocking.
dnsQueryAttempt(d, resp) ==
    LET d1 == [d EXCEPT !.calls = @ + 1, !.resp = resp]
    IN  IF resp.err THEN [d1 EXCEPT !.num = @ + 1]
        ELSE IF resp.Rcode = RcodeNameError
        THEN [d1 EXCEPT !.pc = "returned", !.ret = "nil", !.err = ErrNameDoesNotExist]
        ELSE IF resp.Rcode = RcodeSuccess
        THEN IF resp.Answer = 0
             THEN [d1 EXCEPT !.pc = "returned", !.ret = "nil", !.err = ErrNoRecord]
             ELSE [d1 EXCEPT !.pc = "returned", !.ret = "resp", !.err = NoError]
        ELSE [d1 EXCEPT !.num = @ + 1]

\* dnsQuery, line 203 with num < attempts, then the loop body.
QueryAttempt(resp) ==
    /\ dq.pc = "loop"
    /\ dq.num < QueryAttempts
    /\ dq' = dnsQueryAttempt(dq, resp)
    /\ NoteStep("QueryAttempt", zeroUUID, FALSE, dq.num, NoEvent)
    /\ UNCHANGED <<schedVars, dispVars, pl, scall>>

\* dnsQuery, lines 203 and 218: the attempts are used up, return nil, nil.
QueryGiveUp ==
    /\ dq.pc = "loop"
    /\ ~(dq.num < QueryAttempts)
    /\ dq' = [dq EXCEPT !.pc = "returned", !.ret = "nil", !.err = NoError]
    /\ NoteStep("QueryGiveUp", zeroUUID, FALSE, dq.num, NoEvent)
    /\ UNCHANGED <<schedVars, dispVars, pl, scall>>

\* wildcardDetected, lines 179-186: the pool is asked only when the name has a
\* registered domain (EffectiveTLDPlusOne gave one).
\*   hasDom:   err == nil && dom != ""
\*   poolSays: r.WildcardDetected(ctx, resp, dom)
wildcardDetected(hasDom, poolSays) == IF hasDom THEN poolSays ELSE FALSE

\* PerformQuery without the wildcard test of line 104.
PerformQuery_NoWildcard(d, wild, nans, rr) ==
    IF d.err = NoError /\ d.ret # "nil" /\ nans > 0 /\ rr > 0
    THEN [pc |-> "returned", wild |-> wild, rr |-> rr, ans |-> rr, err |-> NoError]
    ELSE [pc |-> "returned", wild |-> wild, rr |-> rr, ans |-> 0, err |-> d.err]

\* PerformQuery, lines 103-111, once dnsQuery has returned d.ret, d.err.
\*   wild: wildcardDetected(resp, trusted)
\*   nans: len(resolve.ExtractAnswers(resp))
\*   rr:   len(resolve.AnswersByType(ans, qtype)); normalize keeps the length
PerformQuery(d, wild, nans, rr) ==
    IF d.err = NoError /\ d.ret # "nil" /\ ~wild /\ nans > 0 /\ rr > 0
    THEN [pc |-> "returned", wild |-> wild, rr |-> rr, ans |-> rr, err |-> NoError]
    ELSE [pc |-> "returned", wild |-> wild, rr |-> rr, ans |-> 0, err |-> d.err]

\* PerformQuery returns.  The response's answers (nans of them extracted, rr
\* of these of the requested type) and the wildcard verdict are inputs.
PerformQueryReturn(hasDom, poolSays, nans, rr) ==
    /\ dq.pc = "returned"
    /\ dq.pq.pc = "dnsQuery"
    /\ nans \in 0..dq.resp.Answer
    /\ rr \in 0..nans
    /\ dq' = [dq EXCEPT !.pq = PerformQuery(dq, wildcardDetected(hasDom, poolSays), nans, rr)]
    /\ NoteStep("PerformQuery", zeroUUID, FALSE, dq.num, NoEvent)
    /\ UNCHANGED <<schedVars, dispVars, pl, scall>>

\* ------------------------------------------------------ the guess pool
NoteGuess(op, i, late) ==
    last' = [op |-> op, uuid |-> i, started |-> FALSE, idx |-> 0, inp |-> NoEvent,
             late |-> late]

\* SubmitFQDNGuess(e, name), lines 114-119: the guess is appended to guesses.
SubmitFQDNGuess(s, name) ==
    /\ dq.g.submitted < MaxGuesses
    /\ dq' = [dq EXCEPT !.g.guesses = Append(@, [s |-> s, name |-> name]),
                        !.g.submitted = @ + 1]
    /\ NoteGuess("SubmitFQDNGuess", 0, FALSE)
    /\ UNCHANGED <<schedVars, dispVars, pl, scall>>

\* processGuesses, lines 132-133: the guesses queue signals and the goroutine
\* enters guesses.Process.
GuessProcess ==
    /\ dq.g.pool = "select"
    /\ Len(dq.g.guesses) > 0
    /\ dq' = [dq EXCEPT !.g.pool = "next"]
    /\ NoteGuess("GuessProcess", 0, FALSE)
    /\ UNCHANGED <<schedVars, dispVars, pl, scall>>

\* Queue.Process, one turn of its loop: Next() takes the head of guesses and
\* hands it to the callback of line 133; on an empty queue Process returns to
\* the select of line 129.
GuessNext ==
    /\ dq.g.pool = "next"
    /\ dq' = IF Len(dq.g.guesses) = 0
             THEN [dq EXCEPT !.g.pool = "select"]
             ELSE [dq EXCEPT !.g.pool = "token",
                             !.g.held = Head(dq.g.guesses),
                             !.g.guesses = Tail(@)]
    /\ NoteGuess("GuessNext", 0, FALSE)
    /\ UNCHANGED <<schedVars, dispVars, pl, scall>>

\* The callback, line 134: a token is received from ch; the goroutine blocks
\* here, holding the guess, while the channel is empty.
GuessToken ==
    /\ dq.g.pool = "token"
    /\ dq.g.ch > 0
    /\ dq' = [dq EXCEPT !.g.pool = "go", !.g.ch = @ - 1]
    /\ NoteGuess("GuessToken", 0, FALSE)
    /\ UNCHANGED <<schedVars, dispVars, pl, scall>>

\* The callback, lines 135-137: guessAttempt is started for the guess, with
\* the token just received, and the callback returns to Process.
GuessStart ==
    /\ dq.g.pool = "go"
    /\ dq' = [dq EXCEPT !.g.pool = "next",
                        !.g.held = NoGuess,
                        !.g.att = Append(@, [s |-> dq.g.held.s, name |-> dq.g.held.name,
                                             pc |-> "cache", qi |-> 1,
                                             queries |-> 0, hit |-> FALSE])]
    /\ NoteGuess("GuessStart", Len(dq.g.att) + 1, FALSE)
    /\ UNCHANGED <<schedVars, dispVars, pl, scall>>

\* processGuesses, lines 130-131: the done case of the select.
GuessPoolDone ==
    /\ dq.g.pool = "select"
    /\ dq' = [dq EXCEPT !.g.pool = "returned"]
    /\ NoteGuess("GuessPoolDone", 0, FALSE)
    /\ UNCHANGED <<schedVars, dispVars, pl, scall>>

\* guessAttempt returns: the deferred send of line 144 gives the token back.
AttemptEnds(g, i) == [g EXCEPT !.att[i].pc = "ended", !.ch = @ + 1]

\* guessAttempt, lines 146-148: a name that is in the session cache ends the
\* attempt.
GuessCacheCheck(i) ==
    /\ i \in 1..Len(dq.g.att)
    /\ dq.g.att[i].pc = "cache"
    /\ dq' = [dq EXCEPT !.g =
                 IF GetAsset(cache, dq.g.att[i].s, dq.g.att[i].name)
                 THEN AttemptEnds([@ EXCEPT !.att[i].hit = TRUE], i)
                 ELSE [@ EXCEPT !.att[i].pc = "check"]]
    /\ NoteGuess("GuessCacheCheck", i, FALSE)
    /\ UNCHANGED <<schedVars, dispVars, pl, scall>>

\* guessAttempt, lines 151-153: the attempt ends when it finds the session
\* done.
GuessDoneCheck(i) ==
    /\ i \in 1..Len(dq.g.att)
    /\ dq.g.att[i].pc = "check"
    /\ dq' = [dq EXCEPT !.g =
                 IF dq.g.att[i].s \in dq.g.sdone
                 THEN AttemptEnds(@, i)
                 ELSE [@ EXCEPT !.att[i].pc = "query"]]
    /\ NoteGuess("GuessDoneCheck", i, FALSE)
    /\ UNCHANGED <<schedVars, dispVars, pl, scall>>

\* guessAttempt, lines 154-156: PerformQuery for the current qtype; after
\* the last qtype the attempt returns.  The step notes whether the session
\* was done when the query was issued.
GuessQuery(i) ==
    /\ i \in 1..Len(dq.g.att)
    /\ dq.g.att[i].pc = "query"
    /\ dq' = [dq EXCEPT !.g =
                 LET g1 == [@ EXCEPT !.att[i].queries = @ + 1]
                 IN  IF dq.g.att[i].qi = Len(QTypes)
                     THEN AttemptEnds(g1, i)
                     ELSE [g1 EXCEPT !.att[i].qi = @ + 1, !.att[i].pc = "check"]]
    /\ NoteGuess("GuessQuery", i, dq.g.att[i].s \in dq.g.sdone)
    /\ UNCHANGED <<schedVars, dispVars, pl, scall>>

\* The session is terminated: Session.Done() is true from now on.
SessionDone(s) ==
    /\ s \notin dq.g.sdone
    /\ dq' = [dq EXCEPT !.g.sdone = @ \cup {s}]
    /\ NoteGuess("SessionDone", s, FALSE)
    /\ UNCHANGED <<schedVars, dispVars, pl, scall>>

\* ---------------------------------------------------- loading the plugins
\* pluginNewFuncs, by index.  What a constructor and a Start return are inputs:
\* "nil" (the constructor returns nil), "ok" (Start returns nil), "err".
Plugins == 1..MaxPlugins
StartOutcomes == {"nil", "ok", "err"}

\* pl: the LoadAndStartPlugins call:
\*   pc       "loop" while in the for loop of line 42, "returned" after
\*   k        the index of the next entry of pluginNewFuncs
\*   started  the slice started of line 40
\*   calls    the plugins whose Start was called, in call order
\*   up       the plugins whose Start returned nil and that were not stopped
\*   stopped  the plugins whose Stop was called
\*   err      the plugin whose Start error was returned, 0 for nil
InitPlugins ==
    pl = [pc |-> "loop", k |-> 1, started |-> << >>, calls |-> << >>, up |-> {},
          stopped |-> {}, err |-> 0]

\* stopPlugins(started), lines 53-57.
stopPlugins(p, started) ==
    [p EXCEPT !.stopped = @ \cup Range(started), !.up = @ \ Range(started)]

\* One turn of the loop of lines 42-49 for plugin p.k, with its outcome.
\* Nothing is ever appended to the slice started.
LoadStep(p, outcome) ==
    IF outcome = "nil" THEN [p EXCEPT !.k = @ + 1]
    ELSE LET p1 == [p EXCEPT !.calls = Append(@, p.k)]
         IN  IF outcome = "err"
             THEN [stopPlugins(p1, p1.started) EXCEPT !.pc = "returned", !.err = p.k]
             ELSE [p1 EXCEPT !.up = @ \cup {p.k}, !.k = @ + 1]

\* LoadAndStartPlugins, one turn of its loop.
LoadPlugin(outcome) ==
    /\ pl.pc = "loop"
    /\ pl.k \in Plugins
    /\ pl' = LoadStep(pl, outcome)
    /\ NoteStep("LoadPlugin", pl.k, FALSE, 0, NoEvent)
    /\ UNCHANGED <<schedVars, dispVars, dq, scall>>

\* LoadAndStartPlugins, line 50: the list is through, nil is returned.
LoadReturn ==
    /\ pl.pc = "loop"
    /\ pl.k \notin Plugins
    /\ pl' = [pl EXCEPT !.pc = "returned"]
    /\ NoteStep("LoadReturn", zeroUUID, FALSE, 0, NoEvent)
    /\ UNCHANGED <<schedVars, dispVars, dq, scall>>

\* ---------------------------------------------------- the scheduler at large
Configs == {ProcessConfig(TRUE, TRUE, FALSE, 60, 1)}

\* Event 1 has no dependency; every other event depends on event 1: alone,
\* behind a UUID unknown to the scheduler, or behind itself.
Inputs ==
    {Event(1, <<>>, prio, 0, 0) : prio \in 1..MaxPriority} \cup
    UNION {{Event(u, deps, MaxPriority, 0, 0) :
               deps \in {<<1>>, <<UnknownUUID, 1>>, <<u, 1>>}} : u \in UUIDs \ {1}}

Init == InitScheduler(Configs) /\ InitDispatcher /\ InitQuery /\ InitPlugins

Next ==
    \/ \E in \in Inputs : Schedule(in, in.UUID)
    \/ \E u \in UUIDs : Cancel(u)
    \/ ProcessStart
    \/ ProcessCheck
    \/ \E due, expired \in BOOLEAN : ProcessVisit(due, expired)
    \/ ProcessExit
    \/ \E w \in BagToSet(workers) : WorkerDone(w)
    \/ \E w \in BagToSet(workers) : WorkerError(w)

Spec == Init /\ [][Next]_vars

\* -------------------------------------------------- the dispatcher at large
\* Every caller goroutine makes one DispatchEvent call, in any interleaving
\* of their steps (the goroutines, the sessions and the assets are numbered
\* in the order in which they first appear); the registry has a pipeline for
\* every asset type (spec section 4.3).
InitDispatch == InitScheduler(Configs) /\ InitDispatcher /\ InitQuery /\ InitPlugins

NextDispatch ==
    \/ \E c \in Callers, s \in Sessions, a \in Assets :
          /\ \A o \in Callers : o < c => dcall[o].pc # "idle"
          /\ \A x \in Sessions : x < s => \E o \in Callers : dcall[o].s = x
          /\ \A x \in Assets : x < a => \E o \in Callers : dcall[o].a = x
          /\ DispatchLookup(c, s, a)
    \/ \E c \in Callers : DispatchSetAsset(c)
    \/ \E c \in Callers : DispatchAppend(c, FALSE)
    \/ \E c \in Callers : DispatchCount(c)

SpecDispatch == InitDispatch /\ [][NextDispatch]_vars

\* New events are dispatched one call at a time (the assets of a session in
\* ascending order), their pipelines finish in any order, the drain goroutine runs, and the dispatcher is shut down at any
\* moment (Engine.Shutdown stops the dispatcher, never the pipelines).
InitDrain == InitScheduler(Configs) /\ InitDispatcher /\ InitQuery /\ InitPlugins

NextDrain ==
    \/ \E c \in Callers, s \in Sessions, a \in Assets :
          /\ \A o \in Callers : dcall[o].pc \in {"idle", "returned"}
          /\ \A o \in Callers : o < c => dcall[o].pc = "returned"
          /\ ~GetAsset(cache, s, a)
          /\ \A x \in Assets : x < a => GetAsset(cache, s, x)
          /\ DispatchLookup(c, s, a)
    \/ \E c \in Callers : DispatchSetAsset(c)
    \/ \E c \in Callers : DispatchAppend(c, FALSE)
    \/ \E c \in Callers : DispatchCount(c)
    \/ \E i \in 1..Len(pipeq) : PipelineFinish(i)
    \/ DrainProcess
    \/ ProcessNext
    \/ completedCallback
    \/ DispatcherShutdown
    \/ DrainExit

SpecDrain == InitDrain /\ [][NextDrain]_vars

\* Events are dispatched one call at a time, among them events for an asset
\* of a type without handlers; the pipelines that have handlers finish their
\* elements and the drain goroutine counts them.
InitNoPipeline == InitScheduler(Configs) /\ InitDispatcher /\ InitQuery /\ InitPlugins

NextNoPipeline ==
    \/ \E c \in Callers, s \in Sessions, a \in Assets \cup {UnhandledAsset} :
          /\ \A o \in Callers : dcall[o].pc \in {"idle", "returned"}
          /\ \A o \in Callers : o < c => dcall[o].pc = "returned"
          /\ DispatchLookup(c, s, a)
    \/ \E c \in Callers : DispatchSetAsset(c)
    \/ \E c \in Callers : DispatchAppend(c, FALSE)
    \/ \E c \in Callers : DispatchCount(c)
    \/ \E i \in 1..Len(pipeq) : PipelineFinish(i)
    \/ DrainProcess
    \/ ProcessNext
    \/ completedCallback

SpecNoPipeline == InitNoPipeline /\ [][NextNoPipeline]_vars

\* Events of several sessions and types, each UUID scheduled once (the UUIDs
\* in ascending order, their sessions never descending); callers set states
\* by UUID, the Actions started by Schedule finish, and statistics are asked
\* for at any moment, for the zero session and for session 1.
StatsInputs ==
    {[UUID |-> u, State |-> EventStateWaiting, DependOn |-> deps, Priority |-> 1,
      RepeatEvery |-> 0, RepeatTimes |-> 0, Action |-> TRUE, Timeout |-> TimeoutZero,
      SessionID |-> s, Type |-> ty] :
        u \in UUIDs, deps \in {<<>>}, s \in Sessions,
        ty \in {EventTypeAsset, EventTypeCustom}}

InitStats == InitScheduler(Configs) /\ InitDispatcher /\ InitQuery /\ InitPlugins

NextStats ==
    \/ \E in \in StatsInputs :
          /\ nspawn[in.UUID] = 0
          /\ \A o \in UUIDs : o < in.UUID => nspawn[o] > 0
          /\ \A o \in DOMAIN events : events[o].SessionID <= in.SessionID
          /\ Schedule(in, in.UUID)
    \/ \E u \in UUIDs, st \in {EventStateInProcess, EventStateProcessable, EventStateWaiting} :
          /\ u \in DOMAIN events
          /\ events[u].State \notin {st, EventStateDone}
          /\ CallerSetEventState(u, st)
    \/ \E w \in BagToSet(workers) : WorkerDone(w)
    \/ \E sid \in {zeroUUID, 1}, ty \in EventTypes :
          last.op # "GetSessionStats" /\ SessionStats(sid, ty)

SpecStats == InitStats /\ [][NextStats]_vars

\* DispatchEvent step by step against the pipelines and the drain goroutine:
\* new events are dispatched one call at a time (the assets of a session in
\* ascending order), and between the append and the count of a call the
\* pipeline and the drain goroutine run.
InitCount == InitScheduler(Configs) /\ InitDispatcher /\ InitQuery /\ InitPlugins

NextCount ==
    \/ \E c \in Callers, s \in Sessions, a \in Assets :
          /\ \A o \in Callers : dcall[o].pc \in {"idle", "returned"}
          /\ \A o \in Callers : o < c => dcall[o].pc = "returned"
          /\ ~GetAsset(cache, s, a)
          /\ \A x \in Assets : x < a => GetAsset(cache, s, x)
          /\ DispatchLookup(c, s, a)
    \/ \E c \in Callers : DispatchSetAsset(c)
    \/ \E c \in Callers : DispatchAppend(c, FALSE)
    \/ \E c \in Callers : DispatchCount(c)
    \/ \E i \in 1..Len(pipeq) : PipelineFinish(i)
    \/ DrainProcess
    \/ ProcessNext
    \/ completedCallback

SpecCount == InitCount /\ [][NextCount]_vars

\* DispatchEvent calls, one at a time, against a registry whose GetPipeline
\* may return an error (dispatcher.go:89-92).
InitRegistryError == InitScheduler(Configs) /\ InitDispatcher /\ InitQuery /\ InitPlugins

NextRegistryError ==
    \/ \E c \in Callers, s \in Sessions, a \in Assets :
          /\ \A o \in Callers : dcall[o].pc \in {"idle", "returned"}
          /\ \A o \in Callers : o < c => dcall[o].pc = "returned"
          /\ DispatchLookup(c, s, a)
    \/ \E c \in Callers : DispatchSetAsset(c)
    \/ \E c \in Callers, failed \in BOOLEAN : DispatchAppend(c, failed)
    \/ \E c \in Callers : DispatchCount(c)

SpecRegistryError == InitRegistryError /\ [][NextRegistryError]_vars

\* Guesses are submitted for names of session 1, name 1 gets into the
\* session cache by a DispatchEvent call at any moment, the pool starts the
\* attempts, and the session is terminated at any moment.
InitGuess == InitScheduler(Configs) /\ InitDispatcher /\ InitQuery /\ InitPlugins

NextGuess ==
    \/ \E name \in Assets : SubmitFQDNGuess(1, name)
    \/ GuessProcess
    \/ GuessNext
    \/ GuessToken
    \/ GuessStart
    \/ GuessPoolDone
    \/ \E i \in 1..Len(dq.g.att) : GuessCacheCheck(i)
    \/ \E i \in 1..Len(dq.g.att) : GuessDoneCheck(i)
    \/ \E i \in 1..Len(dq.g.att) : GuessQuery(i)
    \/ SessionDone(1)
    \/ DispatchLookup(1, 1, 1)
    \/ DispatchSetAsset(1)
    \/ DispatchAppend(1, FALSE)
    \/ DispatchCount(1)

SpecGuess == InitGuess /\ [][NextGuess]_vars

\* One LoadAndStartPlugins call; every constructor and every Start may return
\* any outcome.
InitLoad == InitScheduler(Configs) /\ InitDispatcher /\ InitQuery /\ InitPlugins

NextLoad ==
    \/ \E outcome \in StartOutcomes : LoadPlugin(outcome)
    \/ LoadReturn

SpecLoad == InitLoad /\ [][NextLoad]_vars

\* One PerformQuery call: dnsQuery asks the resolver pool, which answers each
\* attempt with any response.
InitResolve == InitScheduler(Configs) /\ InitDispatcher /\ InitQuery /\ InitPlugins

NextResolve ==
    \/ \E resp \in Responses : QueryAttempt(resp)
    \/ QueryGiveUp
    \/ \E hasDom, poolSays \in BOOLEAN, nans, rr \in 0..MaxAnswers :
          PerformQueryReturn(hasDom, poolSays, nans, rr)

SpecResolve == InitResolve /\ [][NextResolve]_vars

\* Callers hand Schedule events with any State, with unset or negative
\* Priority, RepeatEvery and RepeatTimes, with and without UUID and Action;
\* the Actions that Schedule starts finish with Done, the goroutines it
\* starts for an event without Action panic or return.
SetupProfiles ==
    {[State |-> EventStateWaiting, Priority |-> MaxPriority, RepeatEvery |-> 0,
      RepeatTimes |-> 0, Action |-> TRUE],
     [State |-> EventStateDone, Priority |-> 0, RepeatEvery |-> -1,
      RepeatTimes |-> -2, Action |-> FALSE],
     [State |-> EventStateInProcess, Priority |-> -1, RepeatEvery |-> 1,
      RepeatTimes |-> -1, Action |-> TRUE],
     [State |-> EventStateCancelled, Priority |-> 1, RepeatEvery |-> 0,
      RepeatTimes |-> 1, Action |-> FALSE]}

SetupInputs ==
    {[UUID |-> u, State |-> p.State, DependOn |-> deps, Priority |-> p.Priority,
      RepeatEvery |-> p.RepeatEvery, RepeatTimes |-> p.RepeatTimes, Action |-> p.Action,
      Timeout |-> TimeoutZero] :
        u \in {zeroUUID} \cup UUIDs, p \in SetupProfiles,
        deps \in {<<>>, <<1>>, <<UnknownUUID, 1>>, <<1, 2>>}}

InitSetup == InitScheduler(Configs) /\ InitDispatcher /\ InitQuery /\ InitPlugins

NextSetup ==
    \/ \E in \in SetupInputs, fresh \in UUIDs :
          /\ fresh = in.UUID \/ (in.UUID = zeroUUID /\ fresh \notin DOMAIN events)
          /\ Schedule(in, fresh)
    \/ \E w \in BagToSet(workers) : WorkerDone(w)
    \/ \E w \in BagToSet(workers), crash \in BOOLEAN : WorkerNoAction(w, crash)

SpecSetup == InitSetup /\ [][NextSetup]_vars

\* Assets get into the session caches by DispatchEvent calls, one at a time
\* (new assets only, those of a session in ascending order);
\* Schedule is called with nil and with events whose Data is an asset, the
\* UUIDs in ascending order.
AssetInputs ==
    {[UUID |-> u, State |-> EventStateWaiting, DependOn |-> <<>>, Priority |-> 1,
      RepeatEvery |-> 0, RepeatTimes |-> 0, Action |-> TRUE, Timeout |-> TimeoutZero,
      SessionID |-> s, Data |-> a] : u \in UUIDs, s \in Sessions, a \in Assets}

InitReject == InitScheduler(Configs) /\ InitDispatcher /\ InitQuery /\ InitPlugins

NextReject ==
    \/ \E c \in Callers, s \in Sessions, a \in Assets :
          /\ \A o \in Callers : dcall[o].pc \in {"idle", "returned"}
          /\ \A o \in Callers : o < c => dcall[o].pc = "returned"
          /\ ~GetAsset(cache, s, a)
          /\ \A x \in Assets : x < a => GetAsset(cache, s, x)
          /\ DispatchLookup(c, s, a)
    \/ \E c \in Callers : DispatchSetAsset(c)
    \/ \E c \in Callers : DispatchAppend(c, FALSE)
    \/ \E c \in Callers : DispatchCount(c)
    \/ ScheduleNil
    \/ \E in \in AssetInputs :
          /\ nspawn[in.UUID] = 0
          /\ \A o \in UUIDs : o < in.UUID => nspawn[o] > 0
          /\ \A o \in scall : o.UUID # in.UUID
          /\ ScheduleAssetCheck(in)
    \/ \E in \in AssetInputs : ScheduleAsset(in, in.UUID)

SpecReject == InitReject /\ [][NextReject]_vars

\* One repeating event, scheduled once and then processed until the loop
\* returns on the empty queue; its Action always finishes with Done, in time.
RepeatInputs ==
    {Event(1, deps, prio, every, MaxRepeat) :
        deps \in {<<>>, <<UnknownUUID>>}, prio \in 1..MaxPriority, every \in {0, 1}}

InitRepeat == InitScheduler(Configs) /\ InitDispatcher /\ InitQuery /\ InitPlugins

NextRepeat ==
    \/ \E in \in RepeatInputs : stats.TotalEventsReceived = 0 /\ Schedule(in, in.UUID)
    \/ stats.TotalEventsReceived = 1 /\ ProcessStart
    \/ ProcessCheck
    \/ \E due \in BOOLEAN : ProcessVisit(due, FALSE)
    \/ ProcessExit
    \/ \E w \in BagToSet(workers) : WorkerDone(w)

SpecRepeat == InitRepeat /\ [][NextRepeat]_vars

\* One event with any RepeatTimes (-1: for ever), scheduled once and then
\* processed; its Action always finishes with Done, in time.
LoopInputs ==
    {Event(1, deps, 1, every, times) :
        deps \in {<<>>, <<UnknownUUID>>}, every \in {0, 1}, times \in (-1)..MaxRepeat}

InitLoop == InitScheduler(Configs) /\ InitDispatcher /\ InitQuery /\ InitPlugins

NextLoop ==
    \/ \E in \in LoopInputs : stats.TotalEventsReceived = 0 /\ Schedule(in, in.UUID)
    \/ stats.TotalEventsReceived = 1 /\ ProcessStart
    \/ ProcessCheck
    \/ \E due \in BOOLEAN : ProcessVisit(due, FALSE)
    \/ ProcessExit
    \/ \E w \in BagToSet(workers) : WorkerDone(w)

SpecLoop == InitLoop /\ [][NextLoop]_vars

\* The scheduler at large with MaxConcurrentActions = 0 and no cancellation.
ConfigsZero == {ProcessConfig(TRUE, TRUE, FALSE, 60, 0)}

InitZero == InitScheduler(ConfigsZero) /\ InitDispatcher /\ InitQuery /\ InitPlugins

NextZero ==
    \/ \E in \in Inputs : Schedule(in, in.UUID)
    \/ ProcessStart
    \/ ProcessCheck
    \/ \E due, expired \in BOOLEAN : ProcessVisit(due, expired)
    \/ ProcessExit
    \/ \E w \in BagToSet(workers) : WorkerDone(w)
    \/ \E w \in BagToSet(workers) : WorkerError(w)

SpecZero == InitZero /\ [][NextZero]_vars

\* A finite set of events, each UUID scheduled once, all before Process is
\* called; Actions finish with Done, in time.  Process then runs until it
\* returns.
InitTerm == InitScheduler(Configs) /\ InitDispatcher /\ InitQuery /\ InitPlugins

NextTerm ==
    \/ \E in \in Inputs : ploop = "idle" /\ nspawn[in.UUID] = 0 /\ Schedule(in, in.UUID)
    \/ ProcessStart
    \/ ProcessCheck
    \/ \E due \in BOOLEAN : ProcessVisit(due, FALSE)
    \/ ProcessExit
    \/ \E w \in BagToSet(workers) : WorkerDone(w)

SpecTerm == InitTerm /\ [][NextTerm]_vars

\* Events that depend on UUIDs the scheduler never saw, on the zero UUID and
\* on event 1, each UUID scheduled once, all before Process is called.
UnknownInputs ==
    {Event(u, deps, 1, 0, 0) :
        u \in UUIDs,
        deps \in {<<UnknownUUID>>, <<zeroUUID>>, <<zeroUUID, UnknownUUID>>, <<1>>}}

InitUnknown == InitScheduler(Configs) /\ InitDispatcher /\ InitQuery /\ InitPlugins

NextUnknown ==
    \/ \E in \in UnknownInputs : ploop = "idle" /\ nspawn[in.UUID] = 0 /\ Schedule(in, in.UUID)
    \/ ProcessStart
    \/ ProcessCheck
    \/ \E due \in BOOLEAN : ProcessVisit(due, FALSE)
    \/ ProcessExit
    \/ \E w \in BagToSet(workers) : WorkerDone(w)

SpecUnknown == InitUnknown /\ [][NextUnknown]_vars

\* Process called with ExecuteAction = false: each UUID scheduled once, all
\* before Process is called.
ConfigsNoExec == {ProcessConfig(TRUE, FALSE, FALSE, 60, 1)}

InitNoExec == InitScheduler(ConfigsNoExec) /\ InitDispatcher /\ InitQuery /\ InitPlugins

NextNoExec ==
    \/ \E in \in Inputs : ploop = "idle" /\ nspawn[in.UUID] = 0 /\ Schedule(in, in.UUID)
    \/ ProcessStart
    \/ ProcessCheck
    \/ \E due \in BOOLEAN : ProcessVisit(due, FALSE)
    \/ ProcessExit
    \/ \E w \in BagToSet(workers) : WorkerDone(w)

SpecNoExec == InitNoExec /\ [][NextNoExec]_vars

\* Two events, the second depending on the first, under CancelAll and
\* Shutdown, with Actions that finish with Done.
CancelInputs == {Event(1, <<>>, 1, 0, 0), Event(2, <<1>>, MaxPriority, 0, 0)}

InitCancel == InitScheduler(Configs) /\ InitDispatcher /\ InitQuery /\ InitPlugins

NextCancel ==
    \/ \E in \in CancelInputs : Schedule(in, in.UUID)
    \/ CancelAll
    \/ Shutdown
    \/ ProcessStart
    \/ ProcessCheck
    \/ \E due, expired \in BOOLEAN : ProcessVisit(due, expired)
    \/ ProcessExit
    \/ \E w \in BagToSet(workers) : WorkerDone(w)

SpecCancel == InitCancel /\ [][NextCancel]_vars

\* ------------------------------------------------------------------ claims
IsDequeue(op) == op \in {"Visit", "Panic"}

\* C1: over any number of DispatchEvent calls for one session and asset, in
\* any interleaving, exactly one call returns nil and every other call fails
\* with the "scheduled previously" error.
C1_DispatchedExactlyOnce ==
    \A sa \in Sessions \X Assets :
        (/\ dres[sa].ok + dres[sa].dup + dres[sa].err > 0
         /\ \A c \in Callers : dcall[c].pc \in {"idle", "returned"})
        => dres[sa].ok = 1 /\ dres[sa].err = 0

\* The Process iteration of this step sets the map entry of event u to
\* InProcess or starts u's Action.
StartsOrSetsInProcess(u) ==
    /\ last'.op = "Visit" /\ last'.uuid = u
    /\ \/ last'.started
       \/ /\ u \in DOMAIN events /\ u \in DOMAIN events'
          /\ events[u].State # EventStateInProcess
          /\ events'[u].State = EventStateInProcess

\* C2: on a Process iteration that sets an event e to InProcess or starts e's
\* Action, every UUID d of e.DependOn, at any position of the list, that is
\* in the event map is Done (d other than e itself: an event that is being
\* started is not Done).
C2_DependenciesDoneAtStart ==
    [][\A u \in UUIDs :
          StartsOrSetsInProcess(u)
          => \A d \in Range(last'.inp.DependOn) \ {u} :
                 d \in DOMAIN events => events[d].State = EventStateDone]_vars

\* What holds of the code: the same for the events that do not list
\* themselves in DependOn.
C2_AcyclicDependenciesDone ==
    [][\A u \in UUIDs :
          (StartsOrSetsInProcess(u) /\ u \notin Range(last'.inp.DependOn))
          => \A d \in Range(last'.inp.DependOn) :
                 d \in DOMAIN events => events[d].State = EventStateDone]_vars

\* The loop has started an event with a two-entry DependOn whose known
\* dependency is in the map and Done.
C2_Witness ==
    /\ last.op = "Visit" /\ last.started
    /\ Len(last.inp.DependOn) = 2
    /\ \E d \in Range(last.inp.DependOn) :
           d # last.uuid /\ d \in DOMAIN events /\ events[d].State = EventStateDone

\* C3: CurrentRunningActions <= MaxConcurrentActions in every state outside
\* the critical section.
C3_RunningWithinLimit == cra <= config.MaxConcurrentActions

\* C4: the entry the Process loop takes from the queue holds an event of
\* minimum Priority among the queued events, and the earliest enqueued among
\* those of that Priority.
MinFirst(sq, i) ==
    /\ \A j \in 1..Len(sq) : sq[i].ev.Priority <= sq[j].ev.Priority
    /\ \A j \in 1..(i - 1) : sq[j].ev.Priority # sq[i].ev.Priority

TakenAt(sq, sq2, i) ==
    \/ sq2 = RemoveAt(sq, i)
    \/ Len(sq2) = Len(sq) /\ SubSeq(sq2, 1, Len(sq) - 1) = RemoveAt(sq, i)

C4_DequeueMinPriorityFifo ==
    [][IsDequeue(last'.op) =>
          \E i \in 1..Len(q) :
              /\ MinFirst(q, i)
              /\ TakenAt(q, q', i)
              /\ q[i].ev = last'.inp]_vars

\* C4 witness: the loop took an entry that was not the oldest in the queue.
C4_Witness == last.op = "Visit" /\ last.idx > 1

\* C5: at quiescence (queue empty, no Action running) TotalEventsReceived
\* is the sum of the six per-state counters.
C5_CountersConsistent ==
    (Len(q) = 0 /\ workers = EmptyBag) =>
        stats.TotalEventsReceived =
            stats.TotalEventsDone + stats.TotalEventsCancelled + stats.TotalEventsError
            + stats.TotalEventsInProcess + stats.TotalEventsWaiting
            + stats.TotalEventsProcessable

\* C6: for an event scheduled with RepeatTimes = n > 0 whose Action always
\* finishes with Done, once Process has returned on the empty queue the Action
\* has been executed exactly n times and the event is not in the map.
C6_RepeatedExactlyNTimes ==
    (ploop = "returned" /\ workers = EmptyBag /\ stats.TotalEventsReceived = 1) =>
        /\ nstart[1] + nspawn[1] = MaxRepeat
        /\ 1 \notin DOMAIN events

\* C7: Cancel(u) of an event in the map removes u and every event whose
\* DependOn contains u, and raises TotalEventsCancelled by one for u plus one
\* for each such dependent.
C7_CancelCascadeCounted ==
    [][last'.op = "Cancel" =>
          LET u == last'.uuid
              deps == Dependents(S, u) \ {u}
          IN  /\ DOMAIN events' = (DOMAIN events) \ (deps \cup {u})
              /\ stats'.TotalEventsCancelled =
                     stats.TotalEventsCancelled + 1 + Cardinality(deps)]_vars

\* C8: after Schedule(e1) where e1.DependOn names an already scheduled event
\* e0 with e0.Priority <= e1.Priority, the stored priority of e1 is
\* e0.Priority - 1, whatever the state of e0.
C8_PriorityLoweredBelowDependency ==
    [][last'.op = "Schedule" =>
          \A e0 \in Range(last'.inp.DependOn) :
              (/\ e0 \in DOMAIN events /\ e0 # last'.uuid
               /\ events[e0].Priority >= 2
               /\ events[e0].Priority <= last'.inp.Priority)
              => events'[last'.uuid].Priority = events[e0].Priority - 1]_vars

\* C9: an event e1 scheduled with DependOn = [e0] is Waiting for as long as
\* e0 is in the map and has not reached Done.
C9_DependentWaits ==
    \A u \in DOMAIN events :
        (/\ events[u].DependOn = <<1>> /\ u # 1
         /\ 1 \in DOMAIN events
         /\ events[1].State \in {EventStateWaiting, EventStateProcessable,
                                 EventStateInProcess})
        => events[u].State = EventStateWaiting

\* C10: a successful Schedule leaves exactly one map entry for the event's
\* UUID: a new UUID grows the map by one, an existing UUID re-uses its slot,
\* and Schedule(e) right after Schedule(e), for e not among its own
\* dependencies, leaves the map as it was.
C10_OneEntryPerUUID ==
    [][last'.op = "Schedule" =>
          LET u == last'.uuid IN
          /\ u \in DOMAIN events'
          /\ DOMAIN events' = (DOMAIN events) \cup {u}
          /\ Cardinality(DOMAIN events') =
                 Cardinality(DOMAIN events) + (IF u \in DOMAIN events THEN 0 ELSE 1)
          /\ (last.op = "Schedule" /\ last.inp = last'.inp
                 /\ u \notin Range(last'.inp.DependOn)) => events' = events]_vars

\* C10 witness: the same event was scheduled twice in a row and the map
\* holds one entry.
C10_Witness ==
    /\ last.op = "Schedule"
    /\ nspawn[last.uuid] = 2
    /\ DOMAIN events = {last.uuid}

\* C11: once the state of an event in the map is Cancelled it never changes
\* to another state (the event may leave the map), whatever runs next, the
\* completion of its Action included; only scheduling the UUID anew starts
\* a new life.
C11_CancelledIsTerminal ==
    [][\A u \in DOMAIN events :
          (/\ events[u].State = EventStateCancelled
           /\ u \in DOMAIN events'
           /\ ~(last'.op = "Schedule" /\ last'.uuid = u))
          => events'[u].State = EventStateCancelled]_vars

\* C12: a Process iteration that takes an event whose map entry is Done
\* deletes the entry when RepeatTimes = 0, and otherwise leaves it Processable
\* and puts it back at the end of the queue, with RepeatTimes one less when it
\* was positive and unchanged when it was -1.
C12_DoneVisitRepeatsOrRemoves ==
    [][\A u \in DOMAIN events :
          (last'.op = "Visit" /\ last'.uuid = u /\ events[u].State = EventStateDone)
          => LET rt == events[u].RepeatTimes IN
             IF rt = 0 THEN u \notin DOMAIN events'
             ELSE /\ u \in DOMAIN events'
                  /\ events'[u].State = EventStateProcessable
                  /\ events'[u].RepeatTimes = (IF rt > 0 THEN rt - 1 ELSE rt)
                  /\ Len(q') > 0
                  /\ q'[Len(q')].ev = events'[u]]_vars

\* C12 witness: the loop took the Done event with RepeatTimes = MaxRepeat and
\* left it Processable in the map with one repetition less.
C12_Witness ==
    /\ last.op = "Visit" /\ ~last.started
    /\ last.inp.RepeatTimes = MaxRepeat
    /\ 1 \in DOMAIN events
    /\ events[1].State = EventStateProcessable
    /\ events[1].RepeatTimes = MaxRepeat - 1

\* C14: with one scheduled event whose RepeatTimes is -1 and whose Action
\* sets Done, a running Process loop (ExitWhenEmpty set, no Shutdown) never
\* returns: the event stays in the map with RepeatTimes -1 and the queue is
\* never empty between iterations.
C14_ForeverNeverReturns ==
    [][(/\ ploop \in {"running", "checked"}
        /\ 1 \in DOMAIN events /\ events[1].RepeatTimes = -1)
       => /\ ploop' \in {"running", "checked"}
          /\ Len(q') > 0
          /\ 1 \in DOMAIN events' /\ events'[1].RepeatTimes = -1]_vars

\* C14 witness: the loop is running and has started the Action of the
\* RepeatTimes = -1 event MaxStarts times.
C14_Witness ==
    /\ ploop = "running"
    /\ 1 \in DOMAIN events /\ events[1].RepeatTimes = -1
    /\ nstart[1] = MaxStarts

\* C13: with MaxConcurrentActions = 0 no Action is running, no event in the
\* map is InProcess, and every scheduled event is in the map in state
\* Processable and in the queue.
InQueue(u) == \E i \in 1..Len(q) : q[i].ev.UUID = u

C13_NothingRunsAtZero ==
    config.MaxConcurrentActions = 0 =>
        /\ workers = EmptyBag
        /\ \A u \in UUIDs : nstart[u] = 0
        /\ \A u \in UUIDs :
               nspawn[u] > 0 =>
                   /\ u \in DOMAIN events
                   /\ events[u].State = EventStateProcessable
                   /\ InQueue(u)

\* C15: a DispatchEvent call that starts after a call for the same session
\* and asset has returned nil is rejected with the "scheduled previously"
\* error, and a rejected call leaves the cache, WorkItemsTotal and the
\* pipeline queue as they were.
C15_DuplicateChangesNothing ==
    [][last'.op = "DispatchLookup" =>
          LET c == last'.uuid
              sa == <<dcall'[c].s, dcall'[c].a>>
              rejected == dcall'[c].pc = "returned"
          IN  /\ dres[sa].ok >= 1 => rejected
              /\ rejected => /\ dres'[sa].dup = dres[sa].dup + 1
                              /\ dres'[sa].ok = dres[sa].ok
                              /\ cache' = cache
                              /\ workTotal' = workTotal
                              /\ pipeq' = pipeq]_vars

\* C15 witness: an asset was dispatched twice in one session; one call
\* returned nil, the other was rejected, WorkItemsTotal is 1 and the pipeline
\* queue holds one element.
C15_Witness ==
    /\ last.op = "DispatchLookup"
    /\ dres[<<1, 1>>].ok = 1 /\ dres[<<1, 1>>].dup = 1
    /\ workTotal[1] = 1
    /\ Len(pipeq) = 1

\* C16: when Process (ExitWhenEmpty set) returns, after a finite set of
\* events with finite RepeatTimes was scheduled and their Actions set Done,
\* the event map is empty.
C16_ReturnsWithEmptyMap ==
    [][(ploop # "returned" /\ ploop' = "returned") => DOMAIN events' = {}]_vars

\* C17: once Shutdown has returned, the Process loop sets no event InProcess
\* and starts no Action any more.
C17_NothingStartsAfterShutdown ==
    [][sstate = SchedulerStateShutdown => nstart' = nstart]_vars

\* C18: when the Action of an event that was just cancelled reports Done or
\* Error, the event is not brought back into the map.
C18_CancelledResultDiscarded ==
    [][(/\ last.op = "Cancel"
        /\ last'.op \in {"Done", "Error"}
        /\ last'.uuid = last.uuid
        /\ last.uuid \notin DOMAIN events)
       => last.uuid \notin DOMAIN events']_vars

\* C19 (as claimed): no element is left on the completion queue once the drain
\* goroutine has exited, so that every element placed there is consumed.
C19_EveryElementConsumed == drain.pc = "exited" => completed = << >>

\* The elements for asset a of session s, carrying the completion queue, that
\* the sequence sq holds.
ElementsFor(sq, s, a) ==
    Cardinality({i \in 1..Len(sq) : sq[i] = [s |-> s, a |-> a, Queue |-> "completed"]})

\* The calls for asset a of session s that have appended their element: the
\* calls that returned nil and the calls between lines 96 and 99.
AppendedFor(s, a) ==
    dres[<<s, a>>].ok
    + Cardinality({c \in Callers : dcall[c].pc = "count" /\ dcall[c].s = s /\ dcall[c].a = a})

\* The elements of session s appended to a pipeline queue so far: the sum of
\* AppendedFor(s, a) over the assets.
Appended(s) ==
    Cardinality({ak \in Assets \X Callers : ak[2] <= AppendedFor(s, ak[1])})

\* The element the drain goroutine holds, if it is of session s.
HeldOf(s) == IF drain.held # NoElement /\ drain.held.s = s THEN 1 ELSE 0

\* C19 (amended): every dispatched element is in the pipeline, on the
\* completion queue, in the hands of the drain goroutine or counted in
\* WorkItemsCompleted, exactly one of the four; the drain goroutine takes the
\* elements off the queue one by one and its callback adds one to the
\* WorkItemsCompleted of the element's session, no other step changes
\* WorkItemsCompleted; and the goroutine exits only from a Process call that
\* found the queue empty, with no element in its hands.
C19_DrainCountsOncePerElement ==
    [][/\ \A s \in Sessions :
             Appended(s)' = CountOf(pipeq', s) + CountOf(completed', s) + HeldOf(s)'
                            + workCompleted'[s]
       /\ IF last'.op = "completedCallback"
          THEN workCompleted' = [workCompleted EXCEPT ![drain.held.s] = @ + 1]
          ELSE workCompleted' = workCompleted
       /\ (drain.pc # "exited" /\ drain'.pc = "exited")
          => drain.pc = "flush" /\ completed = << >> /\ drain'.held = NoElement]_vars

\* One event was dispatched, its element was still queued when the dispatcher
\* was shut down, and the Process call at exit has just counted it.
C19_Witness ==
    /\ last.op = "completedCallback" /\ drain.pc = "flush" /\ done
    /\ \E s \in Sessions : workTotal[s] = 1 /\ workCompleted[s] = 1

\* A response that makes dnsQuery try again: an error, or an Rcode other than
\* NXDOMAIN and NOERROR.
Skipped(resp) == resp.err \/ resp.Rcode \notin {RcodeNameError, RcodeSuccess}

\* C20: dnsQuery calls QueryBlocking at most 50 times and goes on only after
\* an error or an Rcode other than NXDOMAIN and NOERROR; it returns "name does
\* not exist" on NXDOMAIN, "no record of this type" on NOERROR with an empty
\* Answer section, and the message on NOERROR with answers.
C20_QueryStopsAtDecisiveResponse ==
    /\ dq.calls <= QueryAttempts
    /\ (dq.pc = "loop" /\ dq.calls > 0) => Skipped(dq.resp)
    /\ (dq.pc = "returned" /\ dq.calls > 0 /\ ~Skipped(dq.resp)) =>
          IF dq.resp.Rcode = RcodeNameError
          THEN dq.ret = "nil" /\ dq.err = ErrNameDoesNotExist
          ELSE IF dq.resp.Answer = 0
          THEN dq.ret = "nil" /\ dq.err = ErrNoRecord
          ELSE dq.ret = "resp" /\ dq.err = NoError
    /\ (dq.pc = "returned" /\ Skipped(dq.resp)) => dq.calls = QueryAttempts

\* The 50th attempt is the first with a decisive response, and each kind of
\* decisive response is told apart: here the empty successful one.
C20_Witness ==
    /\ dq.pc = "returned" /\ dq.calls = QueryAttempts
    /\ dq.resp = [err |-> FALSE, Rcode |-> RcodeSuccess, Answer |-> 0]
    /\ dq.err = ErrNoRecord

\* C21: PerformQuery returns (nil, nil) when dnsQuery used up its attempts
\* and when the response is judged a wildcard; it returns records only for a
\* successful response with answers that is no wildcard and holds records of
\* the requested type.
C21_NoAnswerWithoutError ==
    dq.pq.pc = "returned" =>
        /\ (dq.ret = "nil" /\ dq.err = NoError) => (dq.pq.ans = 0 /\ dq.pq.err = NoError)
        /\ (dq.ret = "resp" /\ dq.pq.wild) => (dq.pq.ans = 0 /\ dq.pq.err = NoError)
        /\ dq.pq.ans > 0 =>
              /\ dq.ret = "resp" /\ ~dq.resp.err
              /\ dq.resp.Rcode = RcodeSuccess /\ dq.resp.Answer > 0
              /\ ~dq.pq.wild /\ dq.pq.rr > 0 /\ dq.pq.ans = dq.pq.rr
              /\ dq.pq.err = NoError

\* A successful response with a record of the requested type was judged a
\* wildcard and dropped.
C21_Witness ==
    /\ dq.pq.pc = "returned" /\ dq.ret = "resp" /\ dq.pq.wild
    /\ dq.pq.rr > 0 /\ dq.pq.ans = 0 /\ dq.pq.err = NoError

\* The events that are InProcess in the map before the step and Done, Error,
\* Cancelled or gone after it.
LeftInProcess ==
    {u \in DOMAIN events :
        /\ events[u].State = EventStateInProcess
        /\ \/ u \notin DOMAIN events'
           \/ events'[u].State \in {EventStateDone, EventStateError, EventStateCancelled}}

\* C22: a step that takes events out of InProcess to a terminal state lowers
\* CurrentRunningActions by one for each of them.
C22_RunningActionsDecremented ==
    [][LeftInProcess # {} => cra' = cra - Cardinality(LeftInProcess)]_vars

\* The dependencies of the event just handed to Schedule were all in the map
\* and Done when Schedule was called.
AllDependenciesDone ==
    \A d \in Range(last'.inp.DependOn) :
        d \in DOMAIN events /\ events[d].State = EventStateDone

\* C23: Schedule stores the event as Waiting if every UUID in DependOn is in
\* the map and Done (an empty DependOn included) and as Processable otherwise,
\* whatever State the caller supplied.
C23_InitialStateFromDependencies ==
    [][last'.op = "Schedule" =>
         events'[last'.uuid].State =
            IF AllDependenciesDone THEN EventStateWaiting ELSE EventStateProcessable]_vars

\* The caller supplied Done and a dependency that is in the map and Done; the
\* event was stored as Waiting.
C23_Witness ==
    /\ last.op = "Schedule" /\ last.inp.State = EventStateDone
    /\ last.inp.DependOn = <<1>> /\ last.uuid # 1
    /\ {1, last.uuid} \subseteq DOMAIN events
    /\ events[1].State = EventStateDone
    /\ events[last.uuid].State = EventStateWaiting

\* C24: the event Schedule stores has a non-zero UUID, RepeatTimes >= -1,
\* RepeatEvery >= 0, Priority >= 1 and an Action.
C24_StoredEventNormalized ==
    [][last'.op = "Schedule" =>
         /\ last'.uuid # zeroUUID
         /\ last'.uuid \in DOMAIN events'
         /\ LET e == events'[last'.uuid]
            IN  /\ e.UUID = last'.uuid
                /\ last'.inp.UUID # zeroUUID => e.UUID = last'.inp.UUID
                /\ e.RepeatTimes >= -1
                /\ e.RepeatEvery >= 0
                /\ e.Priority >= 1
                /\ e.Action]_vars

\* The caller left UUID, Priority and Action unset and gave negative
\* RepeatEvery and RepeatTimes; the dependency's priority 1 was taken into
\* account.
C24_Witness ==
    /\ last.op = "Schedule" /\ last.inp.UUID = zeroUUID
    /\ last.inp.Priority <= 0 /\ ~last.inp.Action
    /\ last.inp.RepeatTimes < -1 /\ last.inp.RepeatEvery < 0
    /\ last.inp.DependOn = <<1>> /\ last.uuid # 1
    /\ {1, last.uuid} \subseteq DOMAIN events
    /\ events[1].State = EventStateDone /\ events[1].Priority = 1
    /\ events[last.uuid].Priority = 1 /\ events[last.uuid].RepeatTimes = -1

\* The step is a Schedule call with nil, or with an event whose Data is an
\* asset that the cache of its session holds.
ScheduleOfNilOrKnownAsset ==
    /\ last'.op \in {"ScheduleCheck", "ScheduleRejected"}
    /\ \/ last'.inp = NoEvent
       \/ /\ "Data" \in DOMAIN last'.inp
          /\ GetAsset(cache, last'.inp.SessionID, last'.inp.Data)

\* C25: Schedule(nil) and Schedule of an event whose asset is in its session's
\* cache return an error and leave the event map, the queue, the counters and
\* the running Actions as they were.
C25_RejectedScheduleChangesNothing ==
    [][ScheduleOfNilOrKnownAsset =>
         /\ last'.op = "ScheduleRejected"
         /\ UNCHANGED <<events, q, stats, cra, workers, nspawn, cache>>]_vars

\* An event was scheduled and is running; a second event with an asset that
\* was dispatched before has just been rejected.
C25_Witness ==
    /\ last.op = "ScheduleRejected" /\ last.inp # NoEvent
    /\ GetAsset(cache, last.inp.SessionID, last.inp.Data)
    /\ stats.TotalEventsReceived = 1 /\ Len(q) = 1 /\ workers # EmptyBag

\* The step is a visit of the Process loop to an event whose map entry is
\* InProcess.
VisitOfInProcess ==
    /\ last'.op = "Visit"
    /\ events[last'.uuid].State = EventStateInProcess

\* C26: on a visit to an InProcess event whose deadline has passed the event
\* becomes Error and is counted in TotalEventsError; on a visit before the
\* deadline the map entry is unchanged; in both cases the event is queued
\* again.  On the visit to an event in Error, it and its dependents leave the
\* map.
C26_TimeoutFlipsToError ==
    [][/\ VisitOfInProcess =>
            /\ \E i \in 1..Len(q') : q'[i].ev.UUID = last'.uuid
            /\ IF last'.expired
               THEN /\ events'[last'.uuid].State = EventStateError
                    /\ stats'.TotalEventsError = stats.TotalEventsError + 1
               ELSE /\ events'[last'.uuid] = events[last'.uuid]
                    /\ stats' = stats
       /\ (last'.op = "Visit" /\ events[last'.uuid].State = EventStateError) =>
            \A u \in DOMAIN events' :
                u # last'.uuid /\ last'.uuid \notin Range(events[u].DependOn)]_vars

\* Every dependency of the event the loop has just taken from the queue is
\* the zero UUID, is not in the map, or is Done.
NoKnownDependencyUnmet ==
    \A d \in Range(last'.inp.DependOn) :
        d = zeroUUID \/ d \notin DOMAIN events \/ events[d].State = EventStateDone

\* C27: an event whose unmet dependencies are all unknown UUIDs (or the zero
\* UUID) is not blocked: when the loop visits it, due and with capacity left,
\* it is set InProcess and its Action is started.
C27_UnknownDependencyNeverBlocks ==
    [][(/\ last'.op = "Visit"
        /\ events[last'.uuid].State \in {EventStateWaiting, EventStateProcessable}
        /\ NoKnownDependencyUnmet
        /\ cra < config.MaxConcurrentActions /\ config.ExecuteAction
        /\ \E i \in 1..Len(q) : i = last'.idx /\ q[i].ev = last'.inp
        /\ nstart[last'.uuid] < MaxStarts)
       => /\ isProcessable(S, last'.inp)
          /\ last'.due => /\ last'.started
                          /\ events'[last'.uuid].State = EventStateInProcess
                          /\ cra' = cra + 1]_vars

\* An event that depends on the zero UUID and on an unknown UUID was started.
C27_Witness ==
    /\ last.op = "Visit" /\ last.started
    /\ last.inp.DependOn = <<zeroUUID, UnknownUUID>>
    /\ events[last.uuid].State = EventStateInProcess

\* C28: when a dependent that the visit of its cancelled or failed dependency
\* took out of the map later surfaces in the queue, the loop goes on and the
\* dependent's own dependents are removed in turn.
C28_DependentsRemovedInTurn ==
    [][(/\ IsDequeue(last'.op)
        /\ last'.uuid \notin DOMAIN events
        /\ \E d \in Range(last'.inp.DependOn) :
               d \in UUIDs /\ d # last'.uuid /\ d \notin DOMAIN events)
       => /\ ploop' = "running"
          /\ \A u \in DOMAIN events' : last'.uuid \notin Range(events'[u].DependOn)]_vars

\* The step is a due visit of a processable event made while
\* CurrentRunningActions = MaxConcurrentActions.
VisitAtCapacity ==
    /\ last'.op = "Visit" /\ last'.due
    /\ config.ExecuteAction
    /\ cra = config.MaxConcurrentActions

\* C29: a processable event visited at full capacity stays as it is: its map
\* entry, CurrentRunningActions and the running Actions are unchanged and the
\* event is back in the queue.
C29_AtCapacityLeftUnchanged ==
    [][VisitAtCapacity
       => /\ events' = events
          /\ cra' = cra
          /\ workers' = workers
          /\ \E i \in 1..Len(q') : q'[i].ev.UUID = last'.uuid]_vars

\* The same without the map entry: the counter and the running Actions.
C29_AtCapacityNothingStarted ==
    [][VisitAtCapacity => cra' = cra /\ workers' = workers]_vars

\* C30: with ExecuteAction = false a processable event the loop visits is not
\* started, CurrentRunningActions is not incremented, and the map shows the
\* event as Processable afterwards.
C30_NoExecuteShowsProcessable ==
    [][(last'.op = "Visit" /\ last'.due /\ ~config.ExecuteAction)
       => /\ ~last'.started
          /\ cra' = cra
          /\ nstart' = nstart
          /\ last'.uuid \in DOMAIN events'
          /\ events'[last'.uuid].State = EventStateProcessable]_vars

\* The part about the Action and the counter alone.
C30_NoExecuteStartsNothing ==
    [][(last'.op = "Visit" /\ last'.due /\ ~config.ExecuteAction)
       => ~last'.started /\ cra' = cra /\ nstart' = nstart]_vars

\* The step is the return of nil by a DispatchEvent call of goroutine c.
DispatchSucceeds(c) ==
    /\ dcall[c].pc \notin {"idle", "returned"} /\ dcall'[c].pc = "returned"
    /\ dres'[<<dcall[c].s, dcall[c].a>>].ok = dres[<<dcall[c].s, dcall[c].a>>].ok + 1

\* C31: a successful DispatchEvent puts the asset in the session cache,
\* appends exactly one element, carrying the completion queue, to the pipeline
\* queue, and increments the session's WorkItemsTotal by exactly one.
C31_SuccessfulDispatchEffects ==
    [][/\ \A c \in Callers :
             DispatchSucceeds(c)
             => /\ GetAsset(cache', dcall[c].s, dcall[c].a)
                /\ workTotal' = [workTotal EXCEPT ![dcall[c].s] = @ + 1]
       /\ \A s \in Sessions, a \in Assets :
             /\ ElementsFor(pipeq', s, a) = AppendedFor(s, a)'
             /\ Len(pipeq') = Len(pipeq) \/ pipeq' = Append(pipeq, pipeq'[Len(pipeq')])
       /\ \A s \in Sessions : workTotal[s] # workTotal'[s] => \E c \in Callers :
             DispatchSucceeds(c) /\ dcall[c].s = s]_vars

\* A call has returned nil: its asset is cached, its element queued, counted.
C31_Witness ==
    /\ last.op = "DispatchCount"
    /\ dcall[last.uuid].pc = "returned"
    /\ dres[<<dcall[last.uuid].s, dcall[last.uuid].a>>].ok = 1
    /\ GetAsset(cache, dcall[last.uuid].s, dcall[last.uuid].a)
    /\ ElementsFor(pipeq, dcall[last.uuid].s, dcall[last.uuid].a) = 1
    /\ Len(pipeq) = 2
    /\ workTotal[dcall[last.uuid].s] = 2

\* C32: an event for an asset type without handlers is completed at once: it
\* is never left waiting on a pipeline queue.
C32_NoHandlersCompletedAtOnce ==
    \A i \in 1..Len(pipeq) : HasHandlers(pipeq[i].a)

\* The events of session sid in the map that are in state st and of type ty
\* (of any type when ty is Unknown).
EventsOf(sid, ty, st) ==
    {u \in DOMAIN events :
        /\ events[u].SessionID = sid
        /\ events[u].State = st
        /\ ty = EventTypeUnknown \/ events[u].Type = ty}

\* C33: GetSessionStats(sid, t) returns, for InProcess, Processable and
\* Waiting, the number of events in the map of session sid, in that state and
\* of type t (any type when t is Unknown); a zero sid gives all-zero counters.
C33_SessionStatsCountTheMap ==
    last.op = "GetSessionStats"
    => IF last.uuid = zeroUUID
       THEN last.res = SessionStatsResponse(0, 0, 0)
       ELSE last.res = SessionStatsResponse(
                Cardinality(EventsOf(last.uuid, last.itmType, EventStateInProcess)),
                Cardinality(EventsOf(last.uuid, last.itmType, EventStateProcessable)),
                Cardinality(EventsOf(last.uuid, last.itmType, EventStateWaiting)))

\* Statistics were asked for one session and type while the map held an
\* event of that session and type in process and an event of another session.
C33_Witness ==
    /\ last.op = "GetSessionStats" /\ last.uuid = 1 /\ last.itmType = EventTypeAsset
    /\ last.res.SessionWorkItemsInProcess = 1
    /\ \E u \in DOMAIN events : events[u].SessionID # 1 /\ events[u].State = EventStateProcessable

\* C34: the queue and the map agree: the UUID of every queue entry is in the
\* map, and no UUID has two queue entries.
C34_QueueAgreesWithMap ==
    /\ \A i \in 1..Len(q) : q[i].ev.UUID \in DOMAIN events
    /\ \A i, j \in 1..Len(q) : q[i].ev.UUID = q[j].ev.UUID => i = j

\* The first half alone: no queue entry without a map entry.
C34_QueueEntriesInMap ==
    \A i \in 1..Len(q) : q[i].ev.UUID \in DOMAIN events

\* C35: every Action that is running was started by the Process loop, for an
\* event the loop had set InProcess; Schedule starts none.
C35_ActionsStartedByProcessOnly ==
    \A w \in BagToSet(workers) :
        w.by = "Process" /\ w.ev.State = EventStateInProcess

\* C36: each of the six per-state counters is at least 0.
C36_CountersNonNegative ==
    /\ stats.TotalEventsWaiting >= 0
    /\ stats.TotalEventsProcessable >= 0
    /\ stats.TotalEventsInProcess >= 0
    /\ stats.TotalEventsDone >= 0
    /\ stats.TotalEventsError >= 0
    /\ stats.TotalEventsCancelled >= 0

\* C37: for every session WorkItemsCompleted <= WorkItemsTotal, whenever the
\* two are observed.
C37_CompletedAtMostTotal ==
    \A s \in Sessions : workCompleted[s] <= workTotal[s]

\* The step is the return of the registry's error by a DispatchEvent call of
\* goroutine c.
DispatchFails(c) ==
    /\ last'.op = "DispatchAppend" /\ last'.uuid = c
    /\ dcall[c].pc = "pipeline" /\ dcall'[c].pc = "returned"
    /\ dres'[<<dcall[c].s, dcall[c].a>>].err = dres[<<dcall[c].s, dcall[c].a>>].err + 1

\* C38: a DispatchEvent call that fails on the registry's error leaves the
\* session as it was: the asset is not in the session cache (so that a later
\* call for it is not a duplicate), WorkItemsTotal and the pipeline queue are
\* unchanged.
C38_FailedDispatchChangesNothing ==
    [][\A c \in Callers :
         DispatchFails(c)
         => /\ ~GetAsset(cache', dcall[c].s, dcall[c].a)
            /\ workTotal' = workTotal
            /\ pipeq' = pipeq]_vars

\* The counters and the queue alone.
C38_FailedDispatchCountsNothing ==
    [][\A c \in Callers :
         DispatchFails(c) => workTotal' = workTotal /\ pipeq' = pipeq]_vars

\* An asset whose only DispatchEvent calls failed or were rejected is never
\* rejected as scheduled previously.
C38_NoDuplicateAfterFailure ==
    \A sa \in Sessions \X Assets : dres[sa].ok = 0 => dres[sa].dup = 0

\* C39: no query is issued for a session that is done.
C39_NoQueryOnceDone ==
    [][last'.op = "GuessQuery" => ~last'.late]_vars

\* The pool part: the tokens in the channel, the token the callback holds
\* between the receive of line 134 and the go statement of line 136, and the
\* running attempts are the resolver count, so no more attempts run at once
\* than there are resolvers.
C39_TokensPlusRunning ==
    /\ dq.g.ch + (IF dq.g.pool = "go" THEN 1 ELSE 0) + Cardinality(Running(dq.g))
          = NumResolvers
    /\ Cardinality(Running(dq.g)) <= NumResolvers

\* The cache part: an attempt that found its name in the session cache made
\* no query.
C39_NoQueryForCachedName ==
    \A i \in 1..Len(dq.g.att) : dq.g.att[i].hit => dq.g.att[i].queries = 0

\* An attempt that has found the session done at line 151 has returned.
C39_DoneSeenEndsAttempt ==
    [][\A i \in 1..Len(dq.g.att) :
         (last'.op = "GuessDoneCheck" /\ last'.uuid = i /\ dq.g.att[i].s \in dq.g.sdone)
         => dq'.g.att[i].pc = "ended" /\ dq'.g.att[i].queries = dq.g.att[i].queries]_vars

\* The plugins whose Start returned nil before plugin k was started.
StartedBefore(k) == {p \in Range(pl.calls) : p < k}

\* C40: the plugins are started in list order; when the Start of plugin k
\* fails, its error is returned, no later plugin is started, and Stop has been
\* called on every plugin that had started before k.
C40_FailedStartStopsTheStarted ==
    /\ \A i, j \in 1..Len(pl.calls) : i < j => pl.calls[i] < pl.calls[j]
    /\ pl.err # 0 =>
          /\ pl.pc = "returned"
          /\ pl.calls[Len(pl.calls)] = pl.err
          /\ pl.stopped = StartedBefore(pl.err)
          /\ pl.up = {}

\* The order and the return alone.
C40_StartsInOrderUntilFailure ==
    /\ \A i, j \in 1..Len(pl.calls) : i < j => pl.calls[i] < pl.calls[j]
    /\ pl.err # 0 => pl.pc = "returned" /\ pl.calls[Len(pl.calls)] = pl.err

====
